---- MODULE Spec2Model ----
(***************************************************************************)
(* Poll bot: one poll document in the document store, the vote / edit /    *)
(* add-option handlers that mutate it, the aggregation and rendering of    *)
(* the poll message, and the propagation of the rendering to the posted    *)
(* messages.                                                               *)
(*                                                                         *)
(* The store is MongoDB accessed through synchronous single-document       *)
(* operations (find_one, update_one).  Each store operation is atomic on   *)
(* the document.  SeqSpec runs every handler to completion before the      *)
(* next one starts; ConcSpec interleaves two vote handlers at the          *)
(* granularity of their store operations and chat-platform calls, which    *)
(* is what several server processes sharing the store can produce.         *)
(*                                                                         *)
(* FanSpec follows the single chat.update calls of a propagation, which    *)
(* can fail; EditSpec adds edits of the texts; DelSpec the two delete      *)
(* handlers; DraftSpec the creation submission, with its validation, its   *)
(* membership guard and the drafts, and the two ways to open the creation  *)
(* modal; CastSpec the broadcast task of a created poll.                   *)
(*                                                                         *)
(* calls is the list of chat-platform calls issued since the request at    *)
(* hand began, kept by the specifications that follow single calls;        *)
(* drafts is the drafts collection: for each user, the documents with     *)
(* that user_id; views is the modal each user has open in the client.      *)
(***************************************************************************)
EXTENDS Integers, Sequences, FiniteSets, TLC

(* ------------------------------ bounds -------------------------------- *)
NumUsers == 2
NumChannels == 1
MaxId == 2
AggUsers == 4
AggChoices == 3
AggVotes == 8
FanChannels == 2
DelChoices == 1

Users == 1..NumUsers
Channels == 1..NumChannels
ChoiceIds == 1..MaxId
EditValues == {"", "a"}
Questions == {"q"}

NoPoll == [missing |-> TRUE]
NoContent == [blank |-> TRUE]

VARIABLES poll, nextId, posted, last, tog, pc, req, loc, base, calls, drafts, views

vars == <<poll, nextId, posted, last, tog, pc, req, loc, base, calls, drafts, views>>

(* ------------------------- sequence helpers --------------------------- *)
RECURSIVE SeqWithout(_, _)
SeqWithout(s, x) ==
  IF s = <<>> THEN <<>>
  ELSE IF Head(s) = x THEN SeqWithout(Tail(s), x)
       ELSE <<Head(s)>> \o SeqWithout(Tail(s), x)

Range(s) == {s[i] : i \in 1..Len(s)}

RECURSIVE SumSeq(_)
SumSeq(s) == IF s = <<>> THEN 0 ELSE Head(s) + SumSeq(Tail(s))

(* index of the first choice whose _id is cid, 0 when there is none:      *)
(* the element the positional operator "choices.$" addresses              *)
FirstMatch(choices, cid) ==
  IF \E i \in 1..Len(choices) : choices[i].id = cid
  THEN CHOOSE i \in 1..Len(choices) :
         /\ choices[i].id = cid
         /\ \A j \in 1..(i - 1) : choices[j].id # cid
  ELSE 0

(* ------------------------- document store ops ------------------------- *)
(* polls.find_one({"messages": {"$elemMatch": {"ts": ts, "channel": ch}}}) *)
FindByMessage(p, ch, ts) ==
  IF p # NoPoll /\ \E i \in 1..Len(p.messages) :
                      p.messages[i].channel = ch /\ p.messages[i].ts = ts
  THEN p ELSE NoPoll

(* variant: the query never matches (an id compared with its string form) *)
AlreadyVoted_NeverMatches(p, cid, u) == FALSE

(* find_one({"_id":.., "choices": {"$elemMatch": {"_id": cid, "voters": u}}}) *)
AlreadyVoted(p, cid, u) ==
  /\ p # NoPoll
  /\ \E i \in 1..Len(p.choices) :
       p.choices[i].id = cid /\ u \in Range(p.choices[i].voters)

(* variant: the voters lists are emptied ("$set": []) instead of pulled from *)
PullAll_Everyone(p, u) ==
  IF p = NoPoll THEN p
  ELSE [p EXCEPT !.choices =
          [i \in 1..Len(p.choices) |-> [p.choices[i] EXCEPT !.voters = <<>>]]]

(* {"$pull": {"choices.$[].voters": u}} *)
PullAll(p, u) ==
  IF p = NoPoll THEN p
  ELSE [p EXCEPT !.choices =
          [i \in 1..Len(p.choices) |->
             [p.choices[i] EXCEPT !.voters = SeqWithout(@, u)]]]

(* variant: the push addresses every choice ("$[]") instead of the matched one *)
PushVoter_AllChoices(p, cid, u) ==
  IF p = NoPoll \/ FirstMatch(p.choices, cid) = 0 THEN p
  ELSE [p EXCEPT !.choices =
          [i \in 1..Len(p.choices) |-> [p.choices[i] EXCEPT !.voters = Append(@, u)]]]

(* filter "choices._id": cid, {"$push": {"choices.$.voters": u}} *)
PushVoter(p, cid, u) ==
  IF p = NoPoll \/ FirstMatch(p.choices, cid) = 0 THEN p
  ELSE [p EXCEPT !.choices[FirstMatch(p.choices, cid)].voters = Append(@, u)]

(* variant: the pull addresses every choice ("$[]") instead of the matched one *)
PullFrom_AllChoices(p, cid, u) == PullAll(p, u)

(* filter "choices._id": cid, {"$pull": {"choices.$.voters": u}} *)
PullFrom(p, cid, u) ==
  IF p = NoPoll \/ FirstMatch(p.choices, cid) = 0 THEN p
  ELSE [p EXCEPT !.choices[FirstMatch(p.choices, cid)].voters = SeqWithout(@, u)]

(* filter "choices._id": cid, {"$addToSet": {"choices.$.voters": u}} *)
AddToSet(p, cid, u) ==
  IF p = NoPoll \/ FirstMatch(p.choices, cid) = 0 THEN p
  ELSE [p EXCEPT !.choices[FirstMatch(p.choices, cid)].voters =
          IF u \in Range(@) THEN @ ELSE Append(@, u)]

(* {"$push": {"choices": new_choice}} *)
PushChoice(p, c) ==
  IF p = NoPoll THEN p ELSE [p EXCEPT !.choices = Append(@, c)]

(* --------------------- aggregation and rendering ---------------------- *)
(* sum(len(choice["voters"]) for choice in poll["choices"]) *)
TotalIndividualVotes(p) ==
  SumSeq([i \in 1..Len(p.choices) |-> Len(p.choices[i].voters)])

(* {voter for choice in choices for voter in choice["voters"]} *)
UniqueVoters(p) ==
  UNION {Range(p.choices[i].voters) : i \in 1..Len(p.choices)}

(* variant: respondents counted per vote (a list instead of a set) *)
TotalRespondents_CountsVotes(p) == TotalIndividualVotes(p)

TotalRespondents(p) == Cardinality(UniqueVoters(p))

(* variant: the percentage is truncated (int(x)) instead of rounded *)
FormatPct_Truncates(count, b) == (100 * count) \div b

(* f"{x:.0f}" of x = count / base * 100: the nearest integer, a tie going *)
(* to the even one (the float is exact at every tie within the bounds)    *)
FormatPct(count, b) ==
  LET n == 100 * count
      q == n \div b
      r == n % b
  IN IF 2 * r < b THEN q
     ELSE IF 2 * r > b THEN q + 1
     ELSE IF q % 2 = 0 THEN q ELSE q + 1

Percentage(count, percentage_base) ==
  IF percentage_base > 0 THEN FormatPct(count, percentage_base) ELSE 0

(* EMOJI_LIST[i] if i < len(EMOJI_LIST) else the generic marker (0) *)
EmojiListLen == 10
Emoji(i) == IF i < EmojiListLen THEN i + 1 ELSE 0

BuildPollBlocks(p, total_votes, total_respondents) ==
  [ question |-> p.question,
    multiple_notice |-> p.allow_multiple_votes,
    rows |-> [k \in 1..Len(p.choices) |->
               [ emoji |-> Emoji(k - 1),
                 text |-> p.choices[k].text,
                 vote_count |-> Len(p.choices[k].voters),
                 percentage |->
                   Percentage(Len(p.choices[k].voters),
                              IF p.allow_multiple_votes THEN total_votes
                              ELSE total_respondents),
                 mention |-> p.choices[k].voters,
                 value |-> p.choices[k].id ]],
    add_option |-> p.allow_others_to_add_options,
    total_votes |-> total_votes,
    creator |-> p.creator_id ]

(* the blocks update_all_poll_messages builds from the poll it re-read *)
RenderPoll(p) ==
  BuildPollBlocks(p, TotalIndividualVotes(p), TotalRespondents(p))

(* one chat.update per entry of messages, all with the same blocks; a    *)
(* message that was deleted stays deleted (chat.update answers with an   *)
(* error reply)                                                           *)
UpdateAllPollMessages(p, shown) ==
  IF p = NoPoll THEN shown
  ELSE LET blocks == RenderPoll(p) IN
       [ch \in DOMAIN shown |->
          IF /\ \E i \in 1..Len(p.messages) : p.messages[i].channel = ch
             /\ shown[ch] # NoContent
          THEN blocks ELSE shown[ch]]

(* --------------------------- vote handler ----------------------------- *)
(* the store mutation of _handle_vote, lines 26-41, on the stored poll *)
VoteMutation(p, cid, u) ==
  IF ~p.allow_multiple_votes
  THEN IF AlreadyVoted(p, cid, u) THEN PullAll(p, u)
       ELSE PushVoter(PullAll(p, u), cid, u)
  ELSE IF AlreadyVoted(p, cid, u) THEN PullFrom(p, cid, u)
       ELSE AddToSet(p, cid, u)

(* the whole handler on the stored poll: line 22 lookup, then mutation *)
HandleVote(p, cid, u, ch, ts) ==
  IF FindByMessage(p, ch, ts) = NoPoll THEN p ELSE VoteMutation(p, cid, u)

(* ----------------------- modal state extraction ----------------------- *)
RECURSIVE Digits(_)
Digits(k) == IF k < 10 THEN <<k>> ELSE Append(Digits(k \div 10), k % 10)

RECURSIVE LexLess(_, _)
LexLess(a, b) ==
  IF a = <<>> THEN b # <<>>
  ELSE IF b = <<>> THEN FALSE
  ELSE IF Head(a) # Head(b) THEN Head(a) < Head(b)
  ELSE LexLess(Tail(a), Tail(b))

(* block numbers 0..n-1 in the order sorted() gives their block_id strings *)
SortedBlocks(n) ==
  [i \in 1..n |->
     CHOOSE k \in 0..(n - 1) :
       Cardinality({j \in 0..(n - 1) : LexLess(Digits(j), Digits(k))}) = i - 1]

Strip(v) == IF v = " " THEN "" ELSE v

RECURSIVE CollectValues(_, _)
CollectValues(fields, order) ==
  IF order = <<>> THEN <<>>
  ELSE IF fields[Head(order) + 1] # ""
       THEN <<Strip(fields[Head(order) + 1])>> \o CollectValues(fields, Tail(order))
       ELSE CollectValues(fields, Tail(order))

(* _extract_choices: fields[k+1] is the value of block choice_block_k *)
ExtractChoices(fields) == CollectValues(fields, SortedBlocks(Len(fields)))

(* ---------------------------- edit handler ---------------------------- *)
(* number of old choices kept by position / of brand new choices *)
NumNew(p, texts) == IF Len(texts) > Len(p.choices) THEN Len(texts) - Len(p.choices) ELSE 0

(* variant: a choice whose text changed is stored as a new choice, with   *)
(* no voters                                                              *)
NewChoicesData_ByText(p, texts, fresh) ==
  [i \in 1..Len(texts) |->
     IF i <= Len(p.choices) /\ p.choices[i].text = texts[i]
     THEN [id |-> p.choices[i].id, text |-> texts[i], voters |-> p.choices[i].voters]
     ELSE [id |-> IF i <= Len(p.choices) THEN p.choices[i].id
                  ELSE fresh + (i - Len(p.choices) - 1),
           text |-> texts[i], voters |-> <<>>]]

NewChoicesData(p, texts, fresh) ==
  [i \in 1..Len(texts) |->
     IF i <= Len(p.choices)
     THEN [id |-> p.choices[i].id, text |-> texts[i], voters |-> p.choices[i].voters]
     ELSE [id |-> fresh + (i - Len(p.choices) - 1), text |-> texts[i], voters |-> <<>>]]

(* variant: the document is replaced by one built from the form, which    *)
(* holds no messages                                                      *)
SetEdited_ReplacesDocument(p, question, choices, allow_add) ==
  IF p = NoPoll THEN p
  ELSE [p EXCEPT !.question = question, !.choices = choices,
                 !.allow_others_to_add_options = allow_add, !.messages = <<>>]

(* {"$set": {"question":.., "choices":.., "allow_others_to_add_options":..}} *)
SetEdited(p, question, choices, allow_add) ==
  IF p = NoPoll THEN p
  ELSE [p EXCEPT !.question = question, !.choices = choices,
                 !.allow_others_to_add_options = allow_add]

EditAuthorized(p, u) == p # NoPoll /\ p.creator_id = u

(* ---------------------------- delete handler -------------------------- *)
(* variant: the creator check is left out *)
DeleteAuthorized_AnyUser(p, u) == p # NoPoll

(* not (not poll or poll.get("creator_id") != user_id) *)
DeleteAuthorized(p, u) == p # NoPoll /\ p.creator_id = u

(* number of chat.delete calls the loop issues when call j ends as       *)
(* outs[j]: all of them, or up to and including the first that raises    *)
IssuedBefore(outs) ==
  IF \E j \in 1..Len(outs) : outs[j] = "raised"
  THEN CHOOSE j \in 1..Len(outs) :
         outs[j] = "raised" /\ \A i \in 1..(j - 1) : outs[i] # "raised"
  ELSE Len(outs)

DeleteCalls(p, outs) ==
  [j \in 1..IssuedBefore(outs) |->
     [api |-> "chat.delete", channel |-> p.messages[j].channel,
      ts |-> p.messages[j].ts, outcome |-> outs[j]]]

Aborted(outs) == \E j \in 1..Len(outs) : outs[j] = "raised"

(* the messages after the calls: a message whose delete call succeeded is *)
(* gone                                                                   *)
AfterDeleteCalls(p, outs, shown) ==
  [ch \in DOMAIN shown |->
     IF \E j \in 1..IssuedBefore(outs) :
          p.messages[j].channel = ch /\ outs[j] = "ok"
     THEN NoContent ELSE shown[ch]]

(* ------------------------- add-option handler ------------------------- *)
NewChoice(fresh, text, u, vote_for_it) ==
  [id |-> fresh, text |-> Strip(text), voters |-> IF vote_for_it THEN <<u>> ELSE <<>>]

(* variant: the new choice is pushed without clearing the user's other votes *)
AddOptionMutation_NoPull(p, c, u, vote_for_it) == PushChoice(p, c)

AddOptionMutation(p, c, u, vote_for_it) ==
  PushChoice(IF vote_for_it /\ ~p.allow_multiple_votes THEN PullAll(p, u) ELSE p, c)

(* ------------------------------ state --------------------------------- *)
Min(S) == CHOOSE x \in S : \A y \in S : x <= y

Handlers == {1, 2}
Max(S) == CHOOSE x \in S : \A y \in S : x >= y
Timestamps == {1, 2}
PostedTs == Min(Timestamps)
StaleTs == Max(Timestamps)

(* the (channel, ts) a vote click can carry: a posted message of the poll, *)
(* or a message that is not one of the poll's                             *)
MessageInputs ==
  {[channel |-> c, ts |-> PostedTs] : c \in Channels}
    \cup {[channel |-> Min(Channels), ts |-> StaleTs]}

NoReq == [user |-> 0, choice |-> 0, channel |-> 0, ts |-> 0]
NoLoc == [found |-> FALSE, allow_multiple |-> FALSE, already_voted |-> FALSE,
          blocks |-> NoContent, messages |-> <<>>, i |-> 0, response |-> "none"]
NoLast == [op |-> "none"]
NoTog == [n |-> 0]
(* the drafts collection, as the documents with each user_id in the      *)
(* order of their insertion: no document for any user                     *)
NoDraft == [none |-> TRUE]
NoDrafts == [u \in Users |-> <<>>]
(* the modal each user has open: none *)
NoViews == [u \in Users |-> "none"]

(* a poll as _handle_submit_poll inserts it and send_poll_to_channels     *)
(* leaves it: n choices without voters, one MessageRef per channel        *)
CreatedPoll(n, multiple, allow_add) ==
  [ question |-> "q",
    choices |-> [i \in 1..n |-> [id |-> i, text |-> "a", voters |-> <<>>]],
    creator_id |-> 1,
    allow_multiple_votes |-> multiple,
    allow_others_to_add_options |-> allow_add,
    messages |-> [i \in 1..NumChannels |-> [channel |-> i, ts |-> PostedTs]] ]

(* send_poll_to_channels renders with build_poll_blocks(poll_doc): totals 0 *)
InitialPosted(p) ==
  [ch \in Channels |->
     IF \E i \in 1..Len(p.messages) : p.messages[i].channel = ch
     THEN BuildPollBlocks(p, 0, 0) ELSE NoContent]

Init ==
  /\ \E n \in 1..MaxId, multiple \in BOOLEAN, allow_add \in BOOLEAN :
       /\ poll = CreatedPoll(n, multiple, allow_add)
       /\ nextId = n + 1
       /\ posted = InitialPosted(CreatedPoll(n, multiple, allow_add))
  /\ last = NoLast
  /\ tog = NoTog
  /\ pc = [h \in Handlers |-> "idle"]
  /\ req = [h \in Handlers |-> NoReq]
  /\ loc = [h \in Handlers |-> NoLoc]
  /\ base = NoPoll
  /\ calls = <<>>
  /\ drafts = NoDrafts
  /\ views = NoViews

concVars == <<pc, req, loc, base, calls, drafts>>

(* ------------- handlers run to completion (SeqSpec) ------------------- *)
(* variant: the messages are rendered from the poll as it was read at     *)
(* line 22, before the vote is stored                                     *)
Vote_RendersBeforeMutation(u, cid, ch, ts) ==
  /\ poll' = HandleVote(poll, cid, u, ch, ts)
  /\ posted' = IF FindByMessage(poll, ch, ts) = NoPoll THEN posted
               ELSE UpdateAllPollMessages(poll, posted)
  /\ UNCHANGED <<nextId, concVars>>

(* _handle_vote: its effect on the store and on the posted messages *)
Vote(u, cid, ch, ts) ==
  /\ poll' = HandleVote(poll, cid, u, ch, ts)
  /\ posted' = IF FindByMessage(poll, ch, ts) = NoPoll THEN posted
               ELSE UpdateAllPollMessages(poll', posted)
  /\ UNCHANGED <<nextId, concVars>>

VoteResponse(p, ch, ts) == IF FindByMessage(p, ch, ts) = NoPoll THEN "404" ELSE "200"

(* _handle_edit_poll *)
EditPoll(u, question, fields, allow_add) ==
  /\ IF ~EditAuthorized(poll, u)
     THEN UNCHANGED <<poll, posted, nextId>>
     ELSE \E texts \in {ExtractChoices(fields)} :
          /\ nextId + NumNew(poll, texts) <= MaxId + 1
          /\ poll' = SetEdited(poll, question,
                               NewChoicesData(poll, texts, nextId), allow_add)
          /\ nextId' = nextId + NumNew(poll, texts)
          /\ posted' = UpdateAllPollMessages(poll', posted)
  /\ UNCHANGED concVars

EditResponse(p, u) == IF EditAuthorized(p, u) THEN "200" ELSE "errors"

(* _handle_add_option *)
AddOption(u, text, vote_for_it) ==
  /\ nextId <= MaxId
  /\ IF text = "" \/ poll = NoPoll
     THEN UNCHANGED <<poll, posted, nextId>>
     ELSE /\ poll' = AddOptionMutation(poll, NewChoice(nextId, text, u, vote_for_it),
                                       u, vote_for_it)
          /\ nextId' = nextId + 1
          /\ posted' = UpdateAllPollMessages(poll', posted)
  /\ UNCHANGED concVars

AddOptionResponse(text) == IF text = "" THEN "errors" ELSE "200"

(* the choice fields of a submitted modal: up to MaxId of them, all      *)
(* filled except possibly the first, which may be left blank              *)
FieldSeqs ==
  {[i \in 1..n |-> IF i = 1 THEN v ELSE "a"] : n \in 1..MaxId, v \in EditValues}

(* the forms an edit submission by u can carry; a submission the handler  *)
(* rejects has the same effect whatever the form holds, so one stands for *)
(* all of them                                                            *)
EditForms(u) ==
  IF EditAuthorized(poll, u)
  THEN {[question |-> q, fields |-> f, allow_add |-> a] :
          q \in Questions, f \in FieldSeqs, a \in BOOLEAN}
  ELSE {[question |-> "q", fields |-> <<"a">>, allow_add |-> FALSE]}

SeqVote == \E u \in Users, cid \in ChoiceIds, m \in MessageInputs :
  /\ cid < nextId
  /\ Vote(u, cid, m.channel, m.ts)
  /\ last' = [op |-> "vote", response |-> VoteResponse(poll, m.channel, m.ts)]
  /\ UNCHANGED <<tog, views>>
SeqEdit == \E u \in Users : \E form \in EditForms(u) :
  /\ EditPoll(u, form.question, form.fields, form.allow_add)
  /\ last' = [op |-> "edit", response |-> EditResponse(poll, u)]
  /\ UNCHANGED <<tog, views>>
SeqAddOption == \E u \in Users, t \in EditValues, v \in BOOLEAN :
  /\ AddOption(u, t, v)
  /\ last' = [op |-> "add_option", response |-> AddOptionResponse(t)]
  /\ UNCHANGED <<tog, views>>

SeqNext == SeqVote \/ SeqEdit \/ SeqAddOption

SeqSpec == Init /\ [][SeqNext]_vars

(* ------------ repeated toggles (TogSpec): the same handlers with a ---- *)
(* record of the last vote request and of the voter sets before it        *)
VoterSets(p) ==
  [i \in 1..Len(p.choices) |->
     [id |-> p.choices[i].id, voters |-> Range(p.choices[i].voters)]]

TogVote == \E u \in Users, cid \in ChoiceIds, m \in MessageInputs :
  /\ cid < nextId
  /\ Vote(u, cid, m.channel, m.ts)
  /\ tog' = IF FindByMessage(poll, m.channel, m.ts) = NoPoll THEN NoTog
            ELSE IF tog.n = 1 /\ tog.user = u /\ tog.choice = cid
            THEN [tog EXCEPT !.n = 2]
            ELSE [n |-> 1, user |-> u, choice |-> cid,
                  multiple |-> poll.allow_multiple_votes, snap |-> VoterSets(poll)]
  /\ UNCHANGED <<last, views>>
TogEdit == \E u \in Users : \E form \in EditForms(u) :
  /\ EditPoll(u, form.question, form.fields, form.allow_add)
  /\ tog' = NoTog
  /\ UNCHANGED <<last, views>>
TogAddOption == \E u \in Users, t \in EditValues, v \in BOOLEAN :
                  AddOption(u, t, v) /\ tog' = NoTog /\ UNCHANGED <<last, views>>

TogNext == TogVote \/ TogEdit \/ TogAddOption

TogSpec == Init /\ [][TogNext]_vars

(* ------- two vote handlers in flight at once (ConcSpec) --------------- *)
(* Each step is one store operation or one chat-platform call of          *)
(* _handle_vote / update_all_poll_messages, applied to the stored poll as *)
(* it is at that moment.                                                  *)

(* duplicate-free lists over a set: the voters lists votes produce *)
RECURSIVE ListsOf(_)
ListsOf(S) ==
  IF S = {} THEN {<<>>}
  ELSE {<<>>} \cup UNION {{<<x>> \o l : l \in ListsOf(S \ {x})} : x \in S}

(* the polls that completed votes leave behind: a created poll whose      *)
(* choices hold duplicate-free voters lists, pairwise disjoint when the   *)
(* poll is single-vote                                                    *)
VotedPolls ==
  LET lists == ListsOf(Users) IN
  UNION {
    { [CreatedPoll(n, multiple, FALSE) EXCEPT
         !.choices = [i \in 1..n |-> [@[i] EXCEPT !.voters = vs[i]]]] :
        vs \in { w \in [1..n -> lists] :
                   multiple \/ \A i, j \in 1..n :
                                 i # j => Range(w[i]) \cap Range(w[j]) = {} } }
    : n \in 1..MaxId, multiple \in BOOLEAN }

(* the vote clicks on the posted messages of the poll *)
VoteRequests(p) ==
  {[user |-> u, choice |-> p.choices[k].id,
    channel |-> p.messages[j].channel, ts |-> p.messages[j].ts] :
     u \in Users, k \in 1..Len(p.choices), j \in 1..Len(p.messages)}

ConcInit ==
  /\ poll \in VotedPolls
  /\ nextId = Len(poll.choices) + 1
  /\ posted = [ch \in Channels |-> RenderPoll(poll)]
  /\ req \in [Handlers -> VoteRequests(poll)]
  /\ pc = [h \in Handlers |-> "find_poll"]
  /\ loc = [h \in Handlers |-> NoLoc]
  /\ base = poll
  /\ calls = <<>>
  /\ drafts = NoDrafts
  /\ views = NoViews
  /\ last = NoLast
  /\ tog = NoTog

seqVars == <<nextId, last, tog, base, req, calls, drafts, views>>

(* block_actions.py line 22-26 *)
FindPoll(h) ==
  /\ pc[h] = "find_poll"
  /\ LET p == FindByMessage(poll, req[h].channel, req[h].ts) IN
       IF p = NoPoll
       THEN /\ loc' = [loc EXCEPT ![h].response = "404"]
            /\ pc' = [pc EXCEPT ![h] = "done"]
       ELSE /\ loc' = [loc EXCEPT ![h].found = TRUE,
                                  ![h].allow_multiple = p.allow_multiple_votes]
            /\ pc' = [pc EXCEPT ![h] = "check_voted"]
  /\ UNCHANGED <<poll, posted, seqVars>>

(* line 27-28, and the branch taken at line 30 / 36 *)
CheckVoted(h) ==
  /\ pc[h] = "check_voted"
  /\ loc' = [loc EXCEPT ![h].already_voted =
                          AlreadyVoted(poll, req[h].choice, req[h].user)]
  /\ pc' = [pc EXCEPT ![h] =
              IF ~loc[h].allow_multiple THEN "pull_all"
              ELSE IF AlreadyVoted(poll, req[h].choice, req[h].user)
                   THEN "pull_one" ELSE "add_to_set"]
  /\ UNCHANGED <<poll, posted, seqVars>>

(* line 31 *)
PullAllStep(h) ==
  /\ pc[h] = "pull_all"
  /\ poll' = PullAll(poll, req[h].user)
  /\ pc' = [pc EXCEPT ![h] = IF ~loc[h].already_voted THEN "push" ELSE "render"]
  /\ UNCHANGED <<posted, loc, seqVars>>

(* line 33-34 *)
PushStep(h) ==
  /\ pc[h] = "push"
  /\ poll' = PushVoter(poll, req[h].choice, req[h].user)
  /\ pc' = [pc EXCEPT ![h] = "render"]
  /\ UNCHANGED <<posted, loc, seqVars>>

(* line 37-38 *)
PullOneStep(h) ==
  /\ pc[h] = "pull_one"
  /\ poll' = PullFrom(poll, req[h].choice, req[h].user)
  /\ pc' = [pc EXCEPT ![h] = "render"]
  /\ UNCHANGED <<posted, loc, seqVars>>

(* line 40-41 *)
AddToSetStep(h) ==
  /\ pc[h] = "add_to_set"
  /\ poll' = AddToSet(poll, req[h].choice, req[h].user)
  /\ pc' = [pc EXCEPT ![h] = "render"]
  /\ UNCHANGED <<posted, loc, seqVars>>

(* variant: the propagation is dropped when the poll has more than one   *)
(* message: the handler answers without any update call                   *)
RenderStep_DropsFanOut(h) ==
  /\ pc[h] = "render"
  /\ IF poll = NoPoll \/ Len(poll.messages) # 1
     THEN /\ loc' = [loc EXCEPT ![h].response = "200",
                                ![h].messages = IF poll = NoPoll THEN <<>> ELSE poll.messages]
          /\ pc' = [pc EXCEPT ![h] = "done"]
     ELSE /\ loc' = [loc EXCEPT ![h].blocks = RenderPoll(poll),
                                ![h].messages = poll.messages,
                                ![h].i = 1]
          /\ pc' = [pc EXCEPT ![h] = "update"]
  /\ UNCHANGED <<poll, posted, seqVars>>

(* poll_helpers.py line 14-26: re-read the poll and build the blocks *)
RenderStep(h) ==
  /\ pc[h] = "render"
  /\ IF poll = NoPoll \/ Len(poll.messages) = 0
     THEN /\ loc' = [loc EXCEPT ![h].response = "200"]
          /\ pc' = [pc EXCEPT ![h] = "done"]
     ELSE /\ loc' = [loc EXCEPT ![h].blocks = RenderPoll(poll),
                                ![h].messages = poll.messages,
                                ![h].i = 1]
          /\ pc' = [pc EXCEPT ![h] = "update"]
  /\ UNCHANGED <<poll, posted, seqVars>>

(* poll_helpers.py line 28-34: one chat.update, then line 45 after the last *)
UpdateStep(h) ==
  /\ pc[h] = "update"
  /\ posted' = [posted EXCEPT ![loc[h].messages[loc[h].i].channel] = loc[h].blocks]
  /\ IF loc[h].i = Len(loc[h].messages)
     THEN /\ loc' = [loc EXCEPT ![h].response = "200"]
          /\ pc' = [pc EXCEPT ![h] = "done"]
     ELSE /\ loc' = [loc EXCEPT ![h].i = @ + 1]
          /\ pc' = pc
  /\ UNCHANGED <<poll, seqVars>>

ConcFind == \E h \in Handlers : FindPoll(h)
ConcCheck == \E h \in Handlers : CheckVoted(h)
ConcPullAll == \E h \in Handlers : PullAllStep(h)
ConcPush == \E h \in Handlers : PushStep(h)
ConcPullOne == \E h \in Handlers : PullOneStep(h)
ConcAddToSet == \E h \in Handlers : AddToSetStep(h)
ConcRender == \E h \in Handlers : RenderStep(h)
ConcUpdate == \E h \in Handlers : UpdateStep(h)

ConcNext ==
  \/ ConcFind \/ ConcCheck \/ ConcPullAll \/ ConcPush
  \/ ConcPullOne \/ ConcAddToSet \/ ConcRender \/ ConcUpdate

ConcSpec == ConcInit /\ [][ConcNext]_vars

(* ------ aggregation and rendering of voted polls (AggSpec) ------------ *)
AggUserSet == 1..AggUsers

RECURSIVE SortedList(_)
SortedList(S) ==
  IF S = {} THEN <<>> ELSE <<Min(S)>> \o SortedList(S \ {Min(S)})

(* a poll as votes leave it: every choice with a set of voters, the sets  *)
(* pairwise disjoint when the poll is single-vote                         *)
AggPoll(n, multiple, w) ==
  [CreatedPoll(n, multiple, FALSE) EXCEPT
     !.choices = [i \in 1..n |-> [@[i] EXCEPT !.voters = SortedList(w[i])]]]

AggInit ==
  /\ \E n \in 1..AggChoices, multiple \in BOOLEAN :
       \E w \in [1..n -> SUBSET AggUserSet] :
         /\ multiple \/ \A i, j \in 1..n : i # j => w[i] \cap w[j] = {}
         /\ SumSeq([i \in 1..n |-> Cardinality(w[i])]) <= AggVotes
         /\ poll = AggPoll(n, multiple, w)
         /\ nextId = n + 1
         /\ posted = InitialPosted(AggPoll(n, multiple, w))
  /\ last = NoLast
  /\ tog = NoTog
  /\ pc = [h \in Handlers |-> "idle"]
  /\ req = [h \in Handlers |-> NoReq]
  /\ loc = [h \in Handlers |-> NoLoc]
  /\ base = NoPoll
  /\ calls = <<>>
  /\ drafts = NoDrafts
  /\ views = NoViews

(* update_all_poll_messages(poll_id): the totals of lines 20-22 are kept  *)
(* in last, the blocks reach every posted message                         *)
Propagate ==
  /\ last.op = "none"
  /\ posted' = UpdateAllPollMessages(poll, posted)
  /\ last' = [op |-> "propagate", response |-> "200",
              total_votes |-> TotalIndividualVotes(poll),
              total_respondents |-> TotalRespondents(poll)]
  /\ UNCHANGED <<poll, nextId, tog, concVars, views>>

AggNext == Propagate

AggSpec == AggInit /\ [][AggNext]_vars

(* ---- one vote and its propagation, call by call, where a call to ---- *)
(* ---- the chat platform can fail (FanSpec) -------------------------- *)
FanChannelSet == 1..FanChannels

(* what a call to the chat platform can do: succeed, answer with an error *)
(* reply (which client.post returns like any reply), or raise a transport *)
(* error (httpx.RequestError)                                             *)
Outcomes == {"ok", "error", "raised"}

(* a created poll that was posted to the first m channels *)
PostedPoll(n, multiple, m) ==
  [CreatedPoll(n, multiple, FALSE) EXCEPT
     !.messages = [i \in 1..m |-> [channel |-> i, ts |-> PostedTs]]]

FanInit ==
  /\ \E n \in 1..MaxId, multiple \in BOOLEAN, m \in 1..FanChannels :
       /\ poll = PostedPoll(n, multiple, m)
       /\ nextId = n + 1
       /\ posted = [ch \in FanChannelSet |->
                      IF ch <= m THEN BuildPollBlocks(PostedPoll(n, multiple, m), 0, 0)
                      ELSE NoContent]
  /\ last = NoLast
  /\ tog = NoTog
  /\ pc = [h \in Handlers |-> "idle"]
  /\ req = [h \in Handlers |-> NoReq]
  /\ loc = [h \in Handlers |-> NoLoc]
  /\ base = NoPoll
  /\ calls = <<>>
  /\ drafts = NoDrafts
  /\ views = NoViews

(* block_actions.py line 14-41: the click on a posted message is received *)
(* and the vote is stored                                                 *)
FanVote == \E u \in Users, cid \in ChoiceIds, j \in 1..Len(poll.messages) :
  /\ pc[1] = "idle"
  /\ cid < nextId
  /\ req' = [req EXCEPT ![1] = [user |-> u, choice |-> cid,
                                channel |-> poll.messages[j].channel,
                                ts |-> poll.messages[j].ts]]
  /\ poll' = HandleVote(poll, cid, u, poll.messages[j].channel, poll.messages[j].ts)
  /\ pc' = [pc EXCEPT ![1] = "render"]
  /\ last' = [op |-> "vote"]
  /\ UNCHANGED <<nextId, posted, tog, loc, base, calls, drafts, views>>

(* view_submission.py line 187-224: the creator's edit submission, which  *)
(* keeps the choices and selects the add-option checkbox, is stored       *)
FanEdit ==
  /\ pc[1] = "idle"
  /\ req' = [req EXCEPT ![1] = [user |-> poll.creator_id, choice |-> 0,
                                channel |-> 0, ts |-> 0]]
  /\ poll' = SetEdited(poll, poll.question,
                       NewChoicesData(poll, [i \in 1..Len(poll.choices) |->
                                               poll.choices[i].text], nextId),
                       TRUE)
  /\ pc' = [pc EXCEPT ![1] = "render"]
  /\ last' = [op |-> "edit"]
  /\ UNCHANGED <<nextId, posted, tog, loc, base, calls, drafts, views>>

(* view_submission.py line 230-253: an add-option submission is stored *)
FanAddOption == \E u \in Users, vote_for_it \in BOOLEAN :
  /\ pc[1] = "idle"
  /\ nextId <= MaxId
  /\ req' = [req EXCEPT ![1] = [user |-> u, choice |-> nextId,
                                channel |-> 0, ts |-> 0]]
  /\ poll' = AddOptionMutation(poll, NewChoice(nextId, "a", u, vote_for_it),
                               u, vote_for_it)
  /\ nextId' = nextId + 1
  /\ pc' = [pc EXCEPT ![1] = "render"]
  /\ last' = [op |-> "add_option"]
  /\ UNCHANGED <<posted, tog, loc, base, calls, drafts, views>>

(* poll_helpers.py line 14-26 *)
FanRead == RenderStep(1)

(* variant: a call that fails puts the stored poll back as it was created *)
FanUpdateCall_Unwinds(h, outcome) ==
  /\ pc[h] = "update"
  /\ calls' = Append(calls, [api |-> "chat.update",
                             channel |-> loc[h].messages[loc[h].i].channel,
                             ts |-> loc[h].messages[loc[h].i].ts,
                             outcome |-> outcome])
  /\ posted' = IF outcome = "ok"
               THEN [posted EXCEPT ![loc[h].messages[loc[h].i].channel] = loc[h].blocks]
               ELSE posted
  /\ IF outcome = "raised"
     THEN /\ loc' = [loc EXCEPT ![h].response = "500"]
          /\ pc' = [pc EXCEPT ![h] = "done"]
     ELSE IF loc[h].i = Len(loc[h].messages)
     THEN /\ loc' = [loc EXCEPT ![h].response = "200"]
          /\ pc' = [pc EXCEPT ![h] = "done"]
     ELSE /\ loc' = [loc EXCEPT ![h].i = @ + 1]
          /\ pc' = pc
  /\ poll' = IF outcome = "ok" THEN poll
             ELSE PostedPoll(Len(poll.choices) - (IF last.op = "add_option" THEN 1 ELSE 0),
                             poll.allow_multiple_votes, Len(poll.messages))
  /\ UNCHANGED <<nextId, last, tog, base, req, drafts, views>>

(* poll_helpers.py line 28-34: await client.post(chat.update) for entry i *)
(* of messages, outside any try; a raised error leaves the loop and the   *)
(* handler, and router.py line 37-39 answers 500                          *)
FanUpdateCall(h, outcome) ==
  /\ pc[h] = "update"
  /\ calls' = Append(calls, [api |-> "chat.update",
                             channel |-> loc[h].messages[loc[h].i].channel,
                             ts |-> loc[h].messages[loc[h].i].ts,
                             outcome |-> outcome])
  /\ posted' = IF outcome = "ok"
               THEN [posted EXCEPT ![loc[h].messages[loc[h].i].channel] = loc[h].blocks]
               ELSE posted
  /\ IF outcome = "raised"
     THEN /\ loc' = [loc EXCEPT ![h].response = "500"]
          /\ pc' = [pc EXCEPT ![h] = "done"]
     ELSE IF loc[h].i = Len(loc[h].messages)
     THEN /\ loc' = [loc EXCEPT ![h].response = "200"]
          /\ pc' = [pc EXCEPT ![h] = "done"]
     ELSE /\ loc' = [loc EXCEPT ![h].i = @ + 1]
          /\ pc' = pc
  /\ UNCHANGED <<poll, nextId, last, tog, base, req, drafts, views>>

FanUpdate == \E outcome \in Outcomes : FanUpdateCall(1, outcome)

FanNext == FanVote \/ FanEdit \/ FanAddOption \/ FanRead \/ FanUpdate

FanSpec == FanInit /\ [][FanNext]_vars

(* the same steps in a running event loop: the handler is resumed after   *)
(* each await, and each call to the chat platform ends, with an answer or *)
(* with the error the client raises at its timeout                        *)
FanLiveSpec == FanSpec /\ WF_vars(FanRead) /\ WF_vars(FanUpdate)

(* ---- edits that change the texts (EditSpec): the handlers of SeqSpec, -- *)
(* ---- the edit forms with two texts for the first choice field ---------- *)
(* last records the latest request: the handler and its answer, and for a *)
(* handler that checks the creator, the requesting user                   *)
EditTexts == {"a", "b"}

(* the choice fields of an edit: up to MaxId of them, none blank, the     *)
(* first with either text; the checkbox is left as the poll has it        *)
TextFieldSeqs ==
  {[i \in 1..n |-> IF i = 1 THEN v ELSE "a"] : n \in 1..MaxId, v \in EditTexts}

TextForms(u) ==
  IF EditAuthorized(poll, u)
  THEN {[question |-> q, fields |-> f,
          allow_add |-> poll.allow_others_to_add_options] :
          q \in Questions, f \in TextFieldSeqs}
  ELSE {[question |-> "q", fields |-> <<"b">>, allow_add |-> TRUE]}

TextEdit == \E u \in Users : \E form \in TextForms(u) :
  /\ EditPoll(u, form.question, form.fields, form.allow_add)
  /\ last' = [op |-> "edit", user |-> u, response |-> EditResponse(poll, u)]
  /\ UNCHANGED <<tog, views>>

EditNext == SeqVote \/ TextEdit \/ SeqAddOption

EditSpec == Init /\ [][EditNext]_vars

(* ---- edits that blank one choice field (BlankSpec): votes, edits of --- *)
(* ---- the first text, and the creator's edit submission in which one --- *)
(* ---- choice input was emptied and the rest of the form left alone ----- *)
BlankedFields(p, k) ==
  [i \in 1..Len(p.choices) |-> IF i = k THEN "" ELSE p.choices[i].text]

BlankEdit == \E k \in 1..Len(poll.choices) :
  /\ EditPoll(poll.creator_id, poll.question, BlankedFields(poll, k),
              poll.allow_others_to_add_options)
  /\ last' = [op |-> "edit_blank", user |-> poll.creator_id,
              response |-> EditResponse(poll, poll.creator_id), blanked |-> k]
  /\ UNCHANGED <<tog, views>>

BlankNext == SeqVote \/ TextEdit \/ BlankEdit

BlankSpec == Init /\ [][BlankNext]_vars

(* ---- an edit submission beside a vote or an add-option (RaceSpec): ---- *)
(* ---- handler 2 is the edit, whose find_one (line 193) and $set (line -- *)
(* ---- 217) are two store operations; handler 1 is the vote or the ------ *)
(* ---- add-option, which another server process runs in between -------- *)
(* view_submission.py line 193-197: the creator's edit submission reads   *)
(* the poll; base is the document read                                    *)
RaceEditFind ==
  /\ pc[2] = "idle"
  /\ base' = poll
  /\ pc' = [pc EXCEPT ![2] = "set"]
  /\ UNCHANGED <<poll, posted, nextId, last, tog, req, loc, calls, drafts, views>>

(* line 199-227: the form holds the texts the modal was opened with and   *)
(* the other value of the add-option checkbox; the choices are built from *)
(* the document read and stored with $set, then the messages are updated  *)
RaceEditSet ==
  /\ pc[2] = "set"
  /\ poll' = SetEdited(poll, base.question,
                       NewChoicesData(base, [i \in 1..Len(base.choices) |->
                                               base.choices[i].text], nextId),
                       ~base.allow_others_to_add_options)
  /\ posted' = UpdateAllPollMessages(poll', posted)
  /\ pc' = [pc EXCEPT ![2] = "done"]
  /\ UNCHANGED <<nextId, last, tog, base, req, loc, calls, drafts, views>>

(* block_actions.py _handle_vote on a posted message *)
RaceVote == \E u \in Users, cid \in ChoiceIds, j \in 1..Len(poll.messages) :
  /\ pc[1] = "idle"
  /\ cid < nextId
  /\ req' = [req EXCEPT ![1] = [user |-> u, choice |-> cid,
                                channel |-> poll.messages[j].channel,
                                ts |-> poll.messages[j].ts]]
  /\ poll' = HandleVote(poll, cid, u, poll.messages[j].channel, poll.messages[j].ts)
  /\ posted' = UpdateAllPollMessages(poll', posted)
  /\ pc' = [pc EXCEPT ![1] = "done"]
  /\ last' = [op |-> "vote"]
  /\ UNCHANGED <<nextId, tog, base, loc, calls, drafts, views>>

(* view_submission.py _handle_add_option *)
RaceAddOption == \E u \in Users, vote_for_it \in BOOLEAN :
  /\ pc[1] = "idle"
  /\ nextId <= MaxId
  /\ req' = [req EXCEPT ![1] = [user |-> u, choice |-> nextId, channel |-> 0, ts |-> 0]]
  /\ poll' = AddOptionMutation(poll, NewChoice(nextId, "a", u, vote_for_it),
                               u, vote_for_it)
  /\ nextId' = nextId + 1
  /\ posted' = UpdateAllPollMessages(poll', posted)
  /\ pc' = [pc EXCEPT ![1] = "done"]
  /\ last' = [op |-> "add_option"]
  /\ UNCHANGED <<tog, base, loc, calls, drafts, views>>

RaceNext == RaceEditFind \/ RaceEditSet \/ RaceVote \/ RaceAddOption

RaceSpec == Init /\ [][RaceNext]_vars

(* ---- deletion and the creator check (DelSpec): polls of up to --------- *)
(* ---- DelChoices choices, votes, edits that keep the choices, and ------ *)
(* ---- the two delete handlers, whose chat.delete calls can fail -------- *)
DelInit ==
  /\ \E n \in 1..DelChoices, multiple \in BOOLEAN, allow_add \in BOOLEAN :
       /\ poll = CreatedPoll(n, multiple, allow_add)
       /\ nextId = n + 1
       /\ posted = InitialPosted(CreatedPoll(n, multiple, allow_add))
  /\ last = NoLast
  /\ tog = NoTog
  /\ pc = [h \in Handlers |-> "idle"]
  /\ req = [h \in Handlers |-> NoReq]
  /\ loc = [h \in Handlers |-> NoLoc]
  /\ base = NoPoll
  /\ calls = <<>>
  /\ drafts = NoDrafts
  /\ views = NoViews

(* an edit form that keeps every choice and its text *)
DelForms(u) ==
  IF EditAuthorized(poll, u)
  THEN {[question |-> q, fields |-> [i \in 1..Len(poll.choices) |-> "a"], allow_add |-> a] :
          q \in Questions, a \in BOOLEAN}
  ELSE {[question |-> "q", fields |-> <<"a", "a">>, allow_add |-> TRUE]}

(* what the two delete handlers share: find_one, the creator check, one   *)
(* chat.delete per entry of messages (outside any try: a raised error     *)
(* leaves the handler before delete_one), then delete_one                 *)
DeletePoll(u, outs) ==
  /\ IF ~DeleteAuthorized(poll, u)
     THEN UNCHANGED <<poll, posted>>
     ELSE /\ poll' = IF Aborted(outs) THEN poll ELSE NoPoll
          /\ posted' = AfterDeleteCalls(poll, outs, posted)
  /\ UNCHANGED <<nextId, tog, concVars>>

(* view_submission.py _handle_delete_poll_confirmed: 403 to a user who is *)
(* not the creator; router.py line 37-39 answers 500 to a raised error    *)
DeleteViewResponse(p, u, outs) ==
  IF ~DeleteAuthorized(p, u) THEN "403"
  ELSE IF Aborted(outs) THEN "500" ELSE "200"

(* block_actions.py _handle_delete_poll_confirmed: 200 to a user who is   *)
(* not the creator; views.update (line 102) is called after delete_one    *)
DeleteActionResponse(p, u, outs, view_outcome) ==
  IF ~DeleteAuthorized(p, u) THEN "200"
  ELSE IF Aborted(outs) \/ view_outcome = "raised" THEN "500" ELSE "200"

(* the outcomes of the chat.delete calls a delete by u can meet *)
DeleteOutcomes(u) ==
  IF DeleteAuthorized(poll, u) THEN [1..Len(poll.messages) -> Outcomes]
  ELSE {<<>>}

IssuedCalls(p, u, outs) == IF DeleteAuthorized(p, u) THEN DeleteCalls(p, outs) ELSE <<>>

DelEdit == \E u \in Users : \E form \in DelForms(u) :
  /\ EditPoll(u, form.question, form.fields, form.allow_add)
  /\ last' = [op |-> "edit", user |-> u, response |-> EditResponse(poll, u)]
  /\ UNCHANGED <<tog, views>>
DelDeleteView == \E u \in Users : \E outs \in DeleteOutcomes(u) :
  /\ DeletePoll(u, outs)
  /\ last' = [op |-> "delete_view", user |-> u,
              response |-> DeleteViewResponse(poll, u, outs),
              calls |-> IssuedCalls(poll, u, outs)]
  /\ UNCHANGED views
DelDeleteAction == \E u \in Users : \E outs \in DeleteOutcomes(u) :
  \E view_outcome \in (IF DeleteAuthorized(poll, u) /\ ~Aborted(outs)
                       THEN Outcomes ELSE {"ok"}) :
    /\ DeletePoll(u, outs)
    /\ last' = [op |-> "delete_action", user |-> u,
                response |-> DeleteActionResponse(poll, u, outs, view_outcome),
                calls |-> IssuedCalls(poll, u, outs)]
    /\ UNCHANGED views
(* a vote click; its choice is one the poll was created with *)
DelVote == \E u \in Users, cid \in 1..DelChoices, m \in MessageInputs :
  /\ cid < nextId
  /\ Vote(u, cid, m.channel, m.ts)
  /\ last' = [op |-> "vote", response |-> VoteResponse(poll, m.channel, m.ts)]
  /\ UNCHANGED <<tog, views>>

DelNext == DelVote \/ DelEdit \/ DelDeleteView \/ DelDeleteAction

DelSpec == DelInit /\ [][DelNext]_vars

(* ---- creation: validation, membership guard and drafts (DraftSpec) ---- *)
(* the selections of the channel field: none, or every channel *)
AllChannels == [i \in 1..FanChannels |-> i]
Selections == {<<>>, AllChannels}

(* the choice fields of a creation form: one blank field, one filled      *)
(* field, or MaxId filled fields                                          *)
CreateFieldSeqs == {<<"">>} \cup {[i \in 1..n |-> "a"] : n \in {1, MaxId}}

(* view.state.values of a creation submission; no checkbox is selected *)
CreateForms ==
  {[question |-> q, fields |-> f, channels |-> c] :
     q \in {"", "q"}, f \in CreateFieldSeqs, c \in Selections}

(* what the form lacks, read from the raw fields *)
Missing(form) ==
  (IF form.question = "" THEN {"question"} ELSE {})
    \cup (IF \A i \in 1..Len(form.fields) : form.fields[i] = "" THEN {"choices"} ELSE {})
    \cup (IF form.channels = <<>> THEN {"channels"} ELSE {})

(* variant: only the question is validated *)
ValidationErrors_QuestionOnly(form) ==
  IF form.question = "" THEN {"question_block"} ELSE {}

(* lines 109-114: the errors of "if not all([question, choices_text,      *)
(* channels])", keyed by block                                            *)
ValidationErrors(form) ==
  (IF form.question = "" THEN {"question_block"} ELSE {})
    \cup (IF ExtractChoices(form.fields) = <<>> THEN {"choice_block_0"} ELSE {})
    \cup (IF form.channels = <<>> THEN {"channel_block"} ELSE {})

(* how the conversations.info call for one channel can end: the bot is a  *)
(* member; it is not, or the reply has ok false (lines 138-142); an error *)
(* is raised, by raise_for_status or by the transport (lines 144-151)     *)
MemberOutcomes == {"member", "not_member", "raised"}

(* variant: only an explicit is_member = false counts *)
RECURSIVE NotJoined_ExplicitOnly(_, _)
NotJoined_ExplicitOnly(channels, memb) ==
  IF channels = <<>> THEN <<>>
  ELSE (IF Head(memb) = "not_member" THEN <<Head(channels)>> ELSE <<>>)
         \o NotJoined_ExplicitOnly(Tail(channels), Tail(memb))

(* lines 129-151: not_joined_channels *)
RECURSIVE NotJoined(_, _)
NotJoined(channels, memb) ==
  IF channels = <<>> THEN <<>>
  ELSE (IF Head(memb) # "member" THEN <<Head(channels)>> ELSE <<>>)
         \o NotJoined(Tail(channels), Tail(memb))

(* variant: insert_one in place of the upsert *)
UpsertDraft_Insert(d, u, state) == [d EXCEPT ![u] = Append(@, [state |-> state])]

(* drafts.update_one({"user_id": u}, {"$set": {"state": state}},          *)
(* upsert=True): the first document of u is updated, or one is inserted   *)
UpsertDraft(d, u, state) ==
  [d EXCEPT ![u] = IF @ = <<>> THEN <<[state |-> state]>>
                   ELSE <<[state |-> state]>> \o Tail(@)]

(* drafts.delete_one({"user_id": u}) *)
DeleteOneDraft(d, u) == [d EXCEPT ![u] = IF @ = <<>> THEN @ ELSE Tail(@)]

(* drafts.find_one({"user_id": u}), then draft_doc.get("state") *)
FindDraft(d, u) == IF d[u] = <<>> THEN NoDraft ELSE Head(d[u]).state

RECURSIVE NonEmpty(_)
NonEmpty(texts) ==
  IF texts = <<>> THEN <<>>
  ELSE (IF Head(texts) # "" THEN <<Head(texts)>> ELSE <<>>) \o NonEmpty(Tail(texts))

(* lines 170-177: poll_doc, its choices from "for text in choices_text if *)
(* text"                                                                  *)
InsertedPoll(u, form) ==
  LET texts == NonEmpty(ExtractChoices(form.fields)) IN
  [ question |-> form.question,
    choices |-> [i \in 1..Len(texts) |-> [id |-> i, text |-> texts[i], voters |-> <<>>]],
    creator_id |-> u,
    allow_multiple_votes |-> FALSE,
    allow_others_to_add_options |-> FALSE,
    messages |-> <<>> ]

(* the channels a submission's membership checks were made for, and     *)
(* those whose check did not answer that the bot is a member              *)
Checked(form, memb) == {form.channels[i] : i \in DOMAIN memb}
Failed(form, memb) == {form.channels[i] : i \in {j \in DOMAIN memb : memb[j] # "member"}}

NoTask == [channels |-> <<>>]

DraftInit ==
  /\ poll = NoPoll
  /\ nextId = 1
  /\ posted = [ch \in FanChannelSet |-> NoContent]
  /\ last = NoLast
  /\ tog = NoTog
  /\ pc = [h \in Handlers |-> "idle"]
  /\ req = [h \in Handlers |-> NoTask]
  /\ loc = [h \in Handlers |-> NoLoc]
  /\ base = NoPoll
  /\ calls = <<>>
  /\ drafts = NoDrafts
  /\ views = NoViews

(* _handle_submit_poll; the store modelled holds one poll, so a           *)
(* submission that passes both checks is followed while the store is      *)
(* empty.  The task it creates is handler 1.                              *)
SubmitPoll(u, form, memb) ==
  LET errors == ValidationErrors(form)
      not_joined == NotJoined(form.channels, memb) IN
  /\ IF errors # {}
     THEN /\ last' = [op |-> "submit", user |-> u, missing |-> Missing(form),
                      response |-> "errors", errors |-> errors]
          /\ UNCHANGED <<poll, nextId, drafts, pc, req>>
     ELSE IF not_joined # <<>>
     THEN /\ drafts' = UpsertDraft(drafts, u, form)
          /\ last' = [op |-> "submit", user |-> u, missing |-> Missing(form),
                      state |-> form, checked |-> Checked(form, memb),
                      failed |-> Failed(form, memb), response |-> "update"]
          /\ UNCHANGED <<poll, nextId, pc, req>>
     ELSE /\ poll = NoPoll
          /\ poll' = InsertedPoll(u, form)
          /\ nextId' = Len(InsertedPoll(u, form).choices) + 1
          /\ drafts' = DeleteOneDraft(drafts, u)
          /\ pc' = [pc EXCEPT ![1] = "scheduled"]
          /\ req' = [req EXCEPT ![1] = [channels |-> form.channels]]
          /\ last' = [op |-> "submit", user |-> u, missing |-> Missing(form),
                      state |-> form, checked |-> Checked(form, memb),
                      failed |-> Failed(form, memb), response |-> "200"]
  /\ UNCHANGED <<posted, tog, loc, base, calls, views>>

(* the membership checks are made for a form that passed the validation *)
MemberChecks(form) ==
  IF ValidationErrors(form) = {} THEN [1..Len(form.channels) -> MemberOutcomes]
  ELSE {<<>>}

Submit == \E u \in Users, form \in CreateForms : \E memb \in MemberChecks(form) :
  SubmitPoll(u, form, memb)

(* the creation modal without a draft: the question, choice_block_0 and   *)
(* choice_block_1 without values and the channel of the request; the      *)
(* template file of the App Home entry is not among the sources and is    *)
(* taken to hold the blocks of the modal the slash command builds         *)
NewModal(channels) ==
  [draft_loaded |-> FALSE, question |-> "", fields |-> <<"", "">>, channels |-> channels]

(* view_loader.py get_create_poll_modal: with a draft, the notice, the    *)
(* question, one input block per choice block of the draft, and the       *)
(* values of the draft                                                    *)
GetCreatePollModal(channels, draft_state) ==
  IF draft_state = NoDraft THEN NewModal(channels)
  ELSE [draft_loaded |-> TRUE, question |-> draft_state.question,
        fields |-> draft_state.fields, channels |-> draft_state.channels]

OpenResponse(outcome) == IF outcome = "raised" THEN "500" ELSE "200"

(* main.py open_poll_modal, the slash command: the modal is built inline; *)
(* the drafts collection is not read                                      *)
OpenBySlashCommand == \E u \in Users, outcome \in Outcomes :
  /\ last' = [op |-> "open_modal", entry |-> "slash", user |-> u,
              modal |-> NewModal(<<Min(FanChannelSet)>>),
              response |-> OpenResponse(outcome)]
  /\ UNCHANGED <<poll, nextId, posted, tog, pc, req, loc, base, calls, drafts, views>>

(* block_actions.py _handle_open_create_poll_modal, the App Home button *)
OpenByHomeButton == \E u \in Users, outcome \in Outcomes :
  /\ last' = [op |-> "open_modal", entry |-> "home", user |-> u,
              modal |-> GetCreatePollModal(<<>>, FindDraft(drafts, u)),
              response |-> OpenResponse(outcome)]
  /\ UNCHANGED <<poll, nextId, posted, tog, pc, req, loc, base, calls, drafts, views>>

DraftNext == Submit \/ OpenBySlashCommand \/ OpenByHomeButton

DraftSpec == DraftInit /\ [][DraftNext]_vars

(* ---- the broadcast task of a created poll (CastSpec) ------------------ *)
(* send_poll_to_channels as handler 1, one step per await: the task       *)
(* starts from a poll that _handle_submit_poll has just inserted          *)
CastInit ==
  /\ \E u \in Users, n \in 1..MaxId, k \in 1..FanChannels :
       LET form == [question |-> "q", fields |-> [i \in 1..n |-> "a"],
                    channels |-> [i \in 1..k |-> i]] IN
       /\ poll = InsertedPoll(u, form)
       /\ nextId = n + 1
       /\ req = [h \in Handlers |-> IF h = 1 THEN [channels |-> form.channels] ELSE NoTask]
  /\ posted = [ch \in FanChannelSet |-> NoContent]
  /\ last = NoLast
  /\ tog = NoTog
  /\ pc = [h \in Handlers |-> IF h = 1 THEN "scheduled" ELSE "idle"]
  /\ loc = [h \in Handlers |-> NoLoc]
  /\ base = NoPoll
  /\ calls = <<>>
  /\ drafts = NoDrafts
  /\ views = NoViews

(* lines 16-21: find_one, return when the poll is gone, build the blocks *)
CastStart ==
  /\ pc[1] = "scheduled"
  /\ IF poll = NoPoll
     THEN /\ pc' = [pc EXCEPT ![1] = "done"]
          /\ UNCHANGED loc
     ELSE /\ pc' = [pc EXCEPT ![1] = "post"]
          /\ loc' = [loc EXCEPT ![1] = [NoLoc EXCEPT !.blocks = BuildPollBlocks(poll, 0, 0),
                                                     !.i = 1]]
  /\ UNCHANGED <<poll, nextId, posted, last, tog, base, req, calls, drafts, views>>

(* the loop goes on to the next channel, or the task ends *)
CastAdvance ==
  IF loc[1].i < Len(req[1].channels)
  THEN /\ pc' = [pc EXCEPT ![1] = "post"]
       /\ loc' = [loc EXCEPT ![1].i = @ + 1]
  ELSE /\ pc' = [pc EXCEPT ![1] = "done"]
       /\ UNCHANGED loc

(* variant: a post that fails turns the answer to the submission into 500 *)
CastPostCall_Escalates(outcome) ==
  LET ch == req[1].channels[loc[1].i] IN
  /\ pc[1] = "post"
  /\ calls' = Append(calls, [api |-> "chat.postMessage", channel |-> ch, outcome |-> outcome])
  /\ IF outcome = "ok"
     THEN /\ posted' = [posted EXCEPT ![ch] = loc[1].blocks]
          /\ pc' = [pc EXCEPT ![1] = "permalink"]
          /\ UNCHANGED <<loc, last>>
     ELSE /\ CastAdvance
          /\ last' = [op |-> "submit", response |-> "500"]
          /\ UNCHANGED posted
  /\ UNCHANGED <<poll, nextId, tog, base, req, drafts, views>>

(* lines 29-36 and 48-53: chat.postMessage for the channel at hand; an    *)
(* error reply is printed, a raised error is caught, and the loop goes on *)
CastPostCall(outcome) ==
  LET ch == req[1].channels[loc[1].i] IN
  /\ pc[1] = "post"
  /\ calls' = Append(calls, [api |-> "chat.postMessage", channel |-> ch, outcome |-> outcome])
  /\ IF outcome = "ok"
     THEN /\ posted' = [posted EXCEPT ![ch] = loc[1].blocks]
          /\ pc' = [pc EXCEPT ![1] = "permalink"]
          /\ UNCHANGED loc
     ELSE /\ CastAdvance
          /\ UNCHANGED posted
  /\ UNCHANGED <<poll, nextId, last, tog, base, req, drafts, views>>

(* lines 38-46: chat.getPermalink inside the try of the post, then the    *)
(* $push of the MessageRef; a lookup that raises leaves the try before    *)
(* the $push, an error reply gives the empty permalink                    *)
PushMessageRef(p, ch, outcome) ==
  IF p = NoPoll \/ outcome = "raised" THEN p
  ELSE [p EXCEPT !.messages = Append(@, [channel |-> ch, ts |-> PostedTs,
                                         permalink |-> (outcome = "ok")])]

CastPermalinkCall(outcome) ==
  LET ch == req[1].channels[loc[1].i] IN
  /\ pc[1] = "permalink"
  /\ calls' = Append(calls, [api |-> "chat.getPermalink", channel |-> ch, outcome |-> outcome])
  /\ poll' = PushMessageRef(poll, ch, outcome)
  /\ CastAdvance
  /\ UNCHANGED <<nextId, posted, last, tog, base, req, drafts, views>>

CastPost == \E outcome \in Outcomes : CastPostCall(outcome)
CastPermalink == \E outcome \in Outcomes : CastPermalinkCall(outcome)

CastNext == CastStart \/ CastPost \/ CastPermalink

CastSpec == CastInit /\ [][CastNext]_vars

(* ---- the broadcast task beside votes and the delete (MixSpec): the ----- *)
(* ---- task yields at each call to the chat platform, and a vote click --- *)
(* ---- or the creator's delete confirmation is handled in between; ------- *)
(* ---- both come from a message that is posted --------------------------- *)
SomeMessageShown == \E ch \in DOMAIN posted : posted[ch] # NoContent

(* block_actions.py _handle_vote with its propagation, for a click on the *)
(* message posted in ch                                                   *)
MixVote == \E u \in Users, cid \in ChoiceIds, ch \in FanChannelSet :
  /\ posted[ch] # NoContent
  /\ cid < nextId
  /\ poll' = HandleVote(poll, cid, u, ch, PostedTs)
  /\ posted' = IF FindByMessage(poll, ch, PostedTs) = NoPoll THEN posted
               ELSE UpdateAllPollMessages(poll', posted)
  /\ last' = [op |-> "vote", response |-> VoteResponse(poll, ch, PostedTs)]
  /\ UNCHANGED <<nextId, tog, pc, req, loc, base, calls, drafts, views>>

(* view_submission.py _handle_delete_poll_confirmed by the creator, from  *)
(* the settings of a posted message: one chat.delete per entry of         *)
(* messages, each of which succeeds, then delete_one                      *)
MixDelete ==
  /\ poll # NoPoll
  /\ SomeMessageShown
  /\ LET outs == [j \in 1..Len(poll.messages) |-> "ok"] IN
       /\ calls' = calls \o DeleteCalls(poll, outs)
       /\ posted' = AfterDeleteCalls(poll, outs, posted)
  /\ poll' = NoPoll
  /\ last' = [op |-> "delete_view", response |-> "200"]
  /\ UNCHANGED <<nextId, tog, pc, req, loc, base, drafts, views>>

MixNext == CastStart \/ CastPost \/ CastPermalink \/ MixVote \/ MixDelete

MixSpec == CastInit /\ [][MixNext]_vars

(* ---- a valid creation submission and the broadcast task it starts ---- *)
(* ---- (AckSpec): the handler answers at line 184, right after --------- *)
(* ---- asyncio.create_task; the task runs from then on ----------------- *)
(* the forms that pass the validation: a question, one or MaxId choices,  *)
(* and the first k channels                                               *)
ValidForms ==
  {[question |-> "q", fields |-> [i \in 1..n |-> "a"], channels |-> [i \in 1..k |-> i]] :
     n \in {1, MaxId}, k \in 1..FanChannels}

(* _handle_submit_poll for a valid form whose channels the bot is in *)
AckSubmit == \E u \in Users, form \in ValidForms :
  SubmitPoll(u, form, [i \in 1..Len(form.channels) |-> "member"])

AckNext == AckSubmit \/ CastStart \/ CastPost \/ CastPermalink

AckSpec == DraftInit /\ [][AckNext]_vars

(* ---- the option inputs of the creation modal and their extraction ---- *)
(* ---- (OrderSpec): last holds the open modal, fields[k+1] being the ---- *)
(* ---- value typed into block choice_block_k, the k+1-th input shown ---- *)
MaxFields == 11

(* the text typed into the k-th option input shown *)
OptionText(k) == ToString(k)

(* the creation modal as it opens: choice_block_0 and choice_block_1 *)
OrderInit ==
  /\ poll = NoPoll
  /\ nextId = 1
  /\ posted = [ch \in FanChannelSet |-> NoContent]
  /\ last = [op |-> "modal", fields |-> <<"", "">>]
  /\ tog = NoTog
  /\ pc = [h \in Handlers |-> "idle"]
  /\ req = [h \in Handlers |-> NoTask]
  /\ loc = [h \in Handlers |-> NoLoc]
  /\ base = NoPoll
  /\ calls = <<>>
  /\ drafts = NoDrafts
  /\ views = NoViews

(* block_actions.py _handle_add_option_to_modal: a blank input block      *)
(* choice_block_{choice_count} is inserted after the option inputs shown  *)
AddOptionToModal ==
  /\ last.op = "modal"
  /\ Len(last.fields) < MaxFields
  /\ last' = [last EXCEPT !.fields = Append(@, "")]
  /\ UNCHANGED <<poll, nextId, posted, tog, concVars, views>>

(* the user types into a blank option input *)
TypeOption ==
  /\ last.op = "modal"
  /\ \E k \in 1..Len(last.fields) :
       /\ last.fields[k] = ""
       /\ last' = [last EXCEPT !.fields[k] = OptionText(k)]
  /\ UNCHANGED <<poll, nextId, posted, tog, concVars, views>>

(* the modal is submitted with a question, a channel the bot is in, and   *)
(* at least one option                                                    *)
OrderSubmit ==
  /\ last.op = "modal"
  /\ \E k \in 1..Len(last.fields) : last.fields[k] # ""
  /\ SubmitPoll(1, [question |-> "q", fields |-> last.fields, channels |-> <<1>>],
                <<"member">>)

OrderNext == AddOptionToModal \/ TypeOption \/ OrderSubmit

OrderSpec == OrderInit /\ [][OrderNext]_vars

(* ---- the modals of the settings flow and of add-option (FlowSpec) ----- *)
(* A request reaches a handler only from a control the client shows: the  *)
(* overflow menu and the add-option button of a posted message, the       *)
(* buttons and the submit of the modal the user has open.  views.open     *)
(* opens a modal, views.update replaces the view of the open modal, an    *)
(* empty 200 answer to a submission closes it, any other answer leaves    *)
(* it open, and its close button closes it: a view put there by           *)
(* views.update has no view below it to return to.                        *)
Closed(u) == [views EXCEPT ![u] = "none"]
Opened(u, view, outcome) == IF outcome = "ok" THEN [views EXCEPT ![u] = view] ELSE views

(* some posted message of the poll is displayed *)
MessageShown == \E ch \in DOMAIN posted : posted[ch] # NoContent
(* some displayed message carries the add-option button *)
AddButtonShown == \E ch \in DOMAIN posted : posted[ch] # NoContent /\ posted[ch].add_option

flowVars == <<poll, nextId, posted, tog, concVars>>

(* block_actions.py _handle_open_poll_settings: the information view for  *)
(* a user who is not the creator, the settings view for the creator       *)
SettingsView(p, u) == IF p.creator_id # u THEN "info" ELSE "settings"

FlowOpenSettings == \E u \in Users, outcome \in Outcomes :
  /\ views[u] = "none"
  /\ MessageShown
  /\ views' = IF poll = NoPoll THEN views ELSE Opened(u, SettingsView(poll, u), outcome)
  /\ last' = [op |-> "open_settings", user |-> u]
  /\ UNCHANGED flowVars

(* block_actions.py _handle_edit_poll_content, the Edit Poll button of    *)
(* the settings view                                                      *)
FlowEditContent == \E u \in Users, outcome \in Outcomes :
  /\ views[u] = "settings"
  /\ views' = IF ~EditAuthorized(poll, u) THEN views ELSE Opened(u, "edit", outcome)
  /\ last' = [op |-> "edit_content", user |-> u]
  /\ UNCHANGED flowVars

(* block_actions.py _handle_open_delete_confirmation_modal, the Delete    *)
(* Poll button of the settings view                                       *)
FlowOpenDeleteConfirmation == \E u \in Users, outcome \in Outcomes :
  /\ views[u] = "settings"
  /\ views' = Opened(u, "delete_confirmation", outcome)
  /\ last' = [op |-> "open_delete_confirmation", user |-> u]
  /\ UNCHANGED flowVars

(* the Save of the edit view: _handle_edit_poll *)
FlowSubmitEdit == \E u \in Users : \E form \in DelForms(u) :
  /\ views[u] = "edit"
  /\ EditPoll(u, form.question, form.fields, form.allow_add)
  /\ views' = IF EditResponse(poll, u) = "200" THEN Closed(u) ELSE views
  /\ last' = [op |-> "edit", user |-> u]
  /\ UNCHANGED tog

(* the Delete of the confirmation view: view_submission.py                *)
(* _handle_delete_poll_confirmed                                          *)
FlowConfirmDelete == \E u \in Users : \E outs \in DeleteOutcomes(u) :
  /\ views[u] = "delete_confirmation"
  /\ DeletePoll(u, outs)
  /\ views' = IF DeleteViewResponse(poll, u, outs) = "200" THEN Closed(u) ELSE views
  /\ last' = [op |-> "delete_view", user |-> u]

(* the close button of the open modal (Close, Cancel): no request is sent *)
FlowClose == \E u \in Users :
  /\ views[u] # "none"
  /\ views' = Closed(u)
  /\ last' = [op |-> "close", user |-> u]
  /\ UNCHANGED flowVars

(* block_actions.py _handle_open_add_option_modal, the add-option button  *)
(* of a posted message                                                    *)
FlowOpenAddOption == \E u \in Users, outcome \in Outcomes :
  /\ views[u] = "none"
  /\ AddButtonShown
  /\ views' = Opened(u, "add_option", outcome)
  /\ last' = [op |-> "open_add_option", user |-> u]
  /\ UNCHANGED flowVars

(* the Add of the add-option view: _handle_add_option *)
FlowSubmitAddOption == \E u \in Users, t \in EditValues, v \in BOOLEAN :
  /\ views[u] = "add_option"
  /\ AddOption(u, t, v)
  /\ views' = IF AddOptionResponse(t) = "200" THEN Closed(u) ELSE views
  /\ last' = [op |-> "add_option", user |-> u]
  /\ UNCHANGED tog

FlowNext ==
  \/ FlowOpenSettings \/ FlowEditContent \/ FlowOpenDeleteConfirmation
  \/ FlowSubmitEdit \/ FlowConfirmDelete \/ FlowClose
  \/ FlowOpenAddOption \/ FlowSubmitAddOption

FlowSpec == Init /\ [][FlowNext]_vars

(* ============================== claims ================================ *)
Ids(p) == {p.choices[i].id : i \in 1..Len(p.choices)}
VotersOf(p, cid) == p.choices[FirstMatch(p.choices, cid)].voters
ChoicesOf(p, u) == {i \in 1..Len(p.choices) : u \in Range(p.choices[i].voters)}

(* C1: on a single-vote poll, after every handler (vote, add-option with  *)
(* "vote for this option", edit) run to completion, every user is in the  *)
(* voters of at most one choice.                                          *)
C1_SingleVoteExclusivity ==
  (poll # NoPoll /\ ~poll.allow_multiple_votes) =>
     \A u \in Users : Cardinality(ChoicesOf(poll, u)) <= 1

(* a single-vote poll on which a user who had voted added an option and   *)
(* voted for it: the user is in the new (last) choice only                *)
C1_Witness ==
  /\ poll # NoPoll /\ ~poll.allow_multiple_votes
  /\ last.op = "add_option" /\ last.response = "200"
  /\ Len(poll.choices) >= 2
  /\ \E u \in Users : ChoicesOf(poll, u) = {Len(poll.choices)}
  /\ \E v \in Users : ChoicesOf(poll, v) = {1}

(* C2: on a single-vote poll a vote by u on a choice c of the poll        *)
(* removes u from c when u was in c's voters, and otherwise leaves u in   *)
(* no other choice and in c (Pizza then Salad: Pizza loses u, Salad has   *)
(* u). A step with tog'.n > 0 is a step of the vote handler on a posted   *)
(* message, run for tog'.user and tog'.choice.                            *)
C2_SingleVoteToggle ==
  [][( /\ tog'.n > 0
       /\ ~poll.allow_multiple_votes
       /\ tog'.choice \in Ids(poll) )
     => LET u == tog'.user
            cid == tog'.choice
        IN IF u \in Range(VotersOf(poll, cid))
           THEN u \notin Range(VotersOf(poll', cid))
           ELSE /\ ChoicesOf(poll', u) = {FirstMatch(poll.choices, cid)}
                /\ VotersOf(poll', cid) = Append(VotersOf(poll, cid), u)]_vars

(* a user who was in the first choice (Pizza) only voted for the second   *)
(* (Salad): the first choice has no voter left, the second holds exactly  *)
(* that user, and the posted message shows the counts 0 and 1             *)
C2_Witness ==
  /\ poll # NoPoll /\ ~poll.allow_multiple_votes
  /\ tog.n = 1
  /\ Len(tog.snap) = 2
  /\ tog.snap[1].voters = {tog.user} /\ tog.snap[2].voters = {}
  /\ tog.choice = tog.snap[2].id
  /\ poll.choices[1].voters = <<>>
  /\ poll.choices[2].voters = <<tog.user>>
  /\ posted[1].rows[1].vote_count = 0 /\ posted[1].rows[2].vote_count = 1

(* C3: on a multi-vote poll a vote by u on choice A of the poll adds u to *)
(* A when absent, removes u when present, and leaves the voters of every  *)
(* other choice unchanged (tog' names the vote of the step, as in C2).    *)
C3_MultiVoteIndependence ==
  [][( /\ tog'.n > 0
       /\ poll.allow_multiple_votes
       /\ tog'.choice \in Ids(poll) )
     => LET u == tog'.user
            cid == tog'.choice
        IN /\ (u \in Range(VotersOf(poll', cid))) = (u \notin Range(VotersOf(poll, cid)))
           /\ Len(poll'.choices) = Len(poll.choices)
           /\ \A i \in 1..Len(poll.choices) :
                /\ poll'.choices[i].id = poll.choices[i].id
                /\ poll.choices[i].id # cid =>
                     poll'.choices[i].voters = poll.choices[i].voters]_vars

(* a multi-vote poll after a vote, with one user in two choices *)
C3_Witness ==
  /\ poll # NoPoll /\ poll.allow_multiple_votes
  /\ tog.n > 0 /\ tog.multiple
  /\ \E u \in Users : Cardinality(ChoicesOf(poll, u)) >= 2

(* C4 (as stated): the same vote toggle applied twice in a row returns    *)
(* every choice's voter set to what it was before the first toggle,       *)
(* whatever the mode and the user's prior selections.                     *)
C4_ToggleTwiceRestores ==
  tog.n = 2 => VoterSets(poll) = tog.snap

(* C4 (amended): the same holds on a multi-vote poll, and on a            *)
(* single-vote poll when before the first toggle the user had no          *)
(* selection in a choice other than the toggled one.                      *)
C4_ToggleTwiceRestoresAmended ==
  ( /\ tog.n = 2
    /\ tog.multiple \/ \A i \in 1..Len(tog.snap) :
                          tog.user \in tog.snap[i].voters => tog.snap[i].id = tog.choice )
  => VoterSets(poll) = tog.snap

(* a single-vote poll on which a user who was in the choice toggled it    *)
(* twice (unvote, vote again) and is in it again                          *)
C4_Witness ==
  /\ tog.n = 2 /\ ~tog.multiple
  /\ \E i \in 1..Len(tog.snap) :
       tog.snap[i].id = tog.choice /\ tog.user \in tog.snap[i].voters
  /\ VoterSets(poll) = tog.snap

(* C5: a vote whose choice id is not one of the poll's choices leaves     *)
(* every choice's voter set unchanged, in single-vote and multi-vote mode *)
C5_StaleVoteIsNoOp ==
  [][\A u \in Users, cid \in ChoiceIds, m \in MessageInputs :
       ( /\ poll # NoPoll
         /\ last'.op = "vote"
         /\ cid \notin Ids(poll)
         /\ Vote(u, cid, m.channel, m.ts) )
       => VoterSets(poll') = VoterSets(poll)]_vars

(* ------------------------- concurrent votes --------------------------- *)
BothDone == \A h \in Handlers : pc[h] = "done"

(* the stored poll after the two requests are handled one after the other *)
OneAfterTheOther(p, r1, r2) ==
  HandleVote(HandleVote(p, r1.choice, r1.user, r1.channel, r1.ts),
             r2.choice, r2.user, r2.channel, r2.ts)

(* C6: when two vote handlers run by different users have both ended,     *)
(* whatever the interleaving of their store operations, the voter sets    *)
(* equal those of running the two votes one after the other.              *)
C6_DifferentUsersConverge ==
  (BothDone /\ req[1].user # req[2].user) =>
     \/ VoterSets(poll) = VoterSets(OneAfterTheOther(base, req[1], req[2]))
     \/ VoterSets(poll) = VoterSets(OneAfterTheOther(base, req[2], req[1]))

(* two different users voted for the same choice and both are in it; the  *)
(* handlers did interleave: the message shows the rendering of the        *)
(* handler that read the poll before the other one's vote was stored      *)
C6_Witness ==
  /\ BothDone
  /\ req[1].user # req[2].user /\ req[1].choice = req[2].choice
  /\ {req[1].user, req[2].user} \subseteq Range(VotersOf(poll, req[1].choice))
  /\ posted[Min(Channels)].total_votes < TotalIndividualVotes(poll)

(* C7: on a single-vote poll, when two vote handlers of the same user for *)
(* two different choices have interleaved and ended, the user is in at    *)
(* most one choice's voters.                                              *)
C7_ExclusiveUnderConcurrency ==
  ( /\ BothDone
    /\ ~poll.allow_multiple_votes
    /\ req[1].user = req[2].user /\ req[1].choice # req[2].choice )
  => Cardinality(ChoicesOf(poll, req[1].user)) <= 1

(* C8: in every reachable state, also of interleaved vote handlers of the *)
(* same user on the same choice, no user occurs more than once in one     *)
(* choice's voters.                                                       *)
C8_VotersAreSets ==
  poll # NoPoll =>
    \A i \in 1..Len(poll.choices) :
      Len(poll.choices[i].voters) = Cardinality(Range(poll.choices[i].voters))

(* ---------------------------- aggregation ----------------------------- *)
(* counted independently of the handler's arithmetic *)
VoteSlots(p) ==
  UNION {{<<i, j>> : j \in 1..Len(p.choices[i].voters)} : i \in 1..Len(p.choices)}
Respondents(p) ==
  {u \in AggUserSet : \E i \in 1..Len(p.choices) :
                        \E j \in 1..Len(p.choices[i].voters) : p.choices[i].voters[j] = u}

(* C9: after a propagation, totalVotes is the sum of the sizes of all     *)
(* choices' voter lists, totalRespondents is the number of distinct users *)
(* in the union of the voter lists, and the footer of every posted        *)
(* message shows totalVotes.                                              *)
C9_AggregationTotals ==
  last.op = "propagate" =>
    /\ last.total_votes = Cardinality(VoteSlots(poll))
    /\ last.total_respondents = Cardinality(Respondents(poll))
    /\ \A ch \in Channels : posted[ch].total_votes = Cardinality(VoteSlots(poll))

(* voter sets [{A,B},{B}] on a multi-vote poll: 3 votes, 2 respondents *)
C9_Witness ==
  /\ last.op = "propagate"
  /\ poll.allow_multiple_votes
  /\ Len(poll.choices) = 2
  /\ poll.choices[1].voters = <<1, 2>> /\ poll.choices[2].voters = <<2>>
  /\ last.total_votes = 3 /\ last.total_respondents = 2
  /\ posted[Min(Channels)].total_votes = 3

PercentageBase(p) ==
  IF p.allow_multiple_votes THEN Cardinality(VoteSlots(p))
  ELSE Cardinality(Respondents(p))

Abs(x) == IF x < 0 THEN 0 - x ELSE x

ShownPercentages(ch) ==
  [k \in 1..Len(posted[ch].rows) |-> posted[ch].rows[k].percentage]

(* C10: a choice's percentage is count/base*100 rounded to the nearest    *)
(* integer, base being totalVotes on a multi-vote poll and                *)
(* totalRespondents otherwise, and 0 when the base is 0; sizes [3,1,0]    *)
(* with 4 voters in single-vote mode give [75,25,0], and voter sets       *)
(* [{A,B},{B}] in multi-vote mode give [67,33].                           *)
C10_Percentages ==
  last.op = "propagate" =>
    \A ch \in Channels :
      /\ Len(posted[ch].rows) = Len(poll.choices)
      /\ \A k \in 1..Len(poll.choices) :
           LET count == Len(poll.choices[k].voters)
               pct == posted[ch].rows[k].percentage
           IN IF PercentageBase(poll) = 0 THEN pct = 0
              ELSE 2 * Abs(100 * count - pct * PercentageBase(poll))
                     <= PercentageBase(poll)
      /\ ( /\ ~poll.allow_multiple_votes
           /\ [k \in 1..Len(poll.choices) |-> Len(poll.choices[k].voters)] = <<3, 1, 0>> )
         => ShownPercentages(ch) = <<75, 25, 0>>
      /\ ( /\ poll.allow_multiple_votes
           /\ [k \in 1..Len(poll.choices) |-> poll.choices[k].voters] = <<<<1, 2>>, <<2>>>> )
         => ShownPercentages(ch) = <<67, 33>>

(* a single-vote poll with voter-set sizes [3,1,0] after a propagation *)
C10_Witness ==
  /\ last.op = "propagate"
  /\ ~poll.allow_multiple_votes
  /\ [k \in 1..Len(poll.choices) |-> Len(poll.choices[k].voters)] = <<3, 1, 0>>
  /\ ShownPercentages(Min(Channels)) = <<75, 25, 0>>

(* ----------------------- propagation with failures -------------------- *)
UpdateIssuedFor(m) ==
  \E k \in 1..Len(calls) :
    calls[k].api = "chat.update" /\ calls[k].channel = m.channel /\ calls[k].ts = m.ts

(* C11: when the propagation has ended, an update call was issued for     *)
(* every message of the poll, whichever calls failed and however (error   *)
(* reply or raised transport error).                                      *)
C11_FanOutIsolation ==
  (pc[1] = "done" /\ poll # NoPoll) =>
    \A j \in 1..Len(poll.messages) : UpdateIssuedFor(poll.messages[j])

(* ------------------------ no stale aggregation ------------------------ *)
(* the content shows the poll p: its question, and per choice, in order,  *)
(* the text, the voters and their number                                  *)
Shows(content, p) ==
  /\ content # NoContent
  /\ content.question = p.question
  /\ content.add_option = p.allow_others_to_add_options
  /\ Len(content.rows) = Len(p.choices)
  /\ \A k \in 1..Len(p.choices) :
       /\ content.rows[k].value = p.choices[k].id
       /\ content.rows[k].text = p.choices[k].text
       /\ content.rows[k].mention = p.choices[k].voters
       /\ content.rows[k].vote_count = Len(p.choices[k].voters)

(* C12: after a vote, edit or add-option handler that stored its mutation *)
(* (answered 200), every message of the poll shows the stored poll, which *)
(* includes that mutation.                                                *)
C12_NoStaleAggregation ==
  ( /\ last.op \in {"vote", "edit", "add_option"}
    /\ last.response = "200"
    /\ poll # NoPoll )
  => \A j \in 1..Len(poll.messages) : Shows(posted[poll.messages[j].channel], poll)

(* a vote was just stored and the message shows its voter *)
C12_Witness ==
  /\ last.op = "vote" /\ last.response = "200"
  /\ poll # NoPoll /\ Len(poll.messages) > 0
  /\ \E k \in 1..Len(poll.choices) :
       /\ poll.choices[k].voters # <<>>
       /\ posted[poll.messages[1].channel].rows[k].mention = poll.choices[k].voters

(* C13: an edit submission or a delete confirmation made by a user other  *)
(* than the creator of the poll leaves the poll document as it was, not   *)
(* modified and not deleted, issues no chat.delete call and leaves every  *)
(* posted message in place                                                *)
C13_Authorization ==
  [][(/\ poll # NoPoll
      /\ last'.op \in {"edit", "delete_view", "delete_action"}
      /\ last'.user # poll.creator_id)
     => /\ poll' = poll
        /\ posted' = posted
        /\ last'.op # "edit" => last'.calls = <<>>]_vars

(* a user who is not the creator has confirmed a deletion of a poll that  *)
(* holds a vote and whose message is displayed                            *)
C13_Witness ==
  /\ poll # NoPoll
  /\ last.op \in {"delete_view", "delete_action"}
  /\ last.user # poll.creator_id
  /\ \E i \in 1..Len(poll.choices) : poll.choices[i].voters # <<>>
  /\ \E ch \in DOMAIN posted : posted[ch] # NoContent

(* C15: when the creator confirms a deletion, a chat.delete call is       *)
(* issued for every entry of messages and the poll document is removed    *)
C15_Deletion ==
  [][(/\ poll # NoPoll
      /\ last'.op \in {"delete_view", "delete_action"}
      /\ last'.user = poll.creator_id)
     => /\ poll' = NoPoll
        /\ \A i \in 1..Len(poll.messages) :
             \E j \in 1..Len(last'.calls) :
               /\ last'.calls[j].channel = poll.messages[i].channel
               /\ last'.calls[j].ts = poll.messages[i].ts]_vars

(* whether u is among the voters of the choice at position i *)
VotedAt(p, i, u) == \E k \in 1..Len(p.choices[i].voters) : p.choices[i].voters[k] = u

(* C14: after an edit that keeps the number of choices, and so changes    *)
(* at most their texts, the choice at every position keeps its id and its *)
(* voters, and a vote that carries that id then toggles the user among    *)
(* the voters of that same choice                                         *)
C14_StableChoiceIdentity ==
  [][(/\ poll # NoPoll
      /\ last'.op = "edit"
      /\ last'.response = "200"
      /\ Len(poll'.choices) = Len(poll.choices))
     => \A i \in 1..Len(poll.choices) :
          /\ poll'.choices[i].id = poll.choices[i].id
          /\ poll'.choices[i].voters = poll.choices[i].voters
          /\ \A u \in Users :
               VotedAt(VoteMutation(poll', poll.choices[i].id, u), i, u)
                 = ~VotedAt(poll', i, u)]_vars

(* the creator has changed the text of the first of two choices, which    *)
(* holds a vote                                                           *)
C14_Witness ==
  /\ poll # NoPoll
  /\ last.op = "edit"
  /\ last.response = "200"
  /\ Len(poll.choices) = 2
  /\ poll.choices[1].text = "b"
  /\ poll.choices[1].voters # <<>>

(* the error key of each input a creation form can lack *)
ErrorKey(input) ==
  IF input = "question" THEN "question_block"
  ELSE IF input = "choices" THEN "choice_block_0" ELSE "channel_block"

C17_MembershipGuard ==
  [][/\ (last'.op = "submit" /\ last'.missing = {} /\ last'.failed # {})
          => /\ last'.response = "update"
             /\ FindDraft(drafts', last'.user) = last'.state
             /\ \A v \in Users \ {last'.user} : drafts'[v] = drafts[v]
             /\ poll' = poll
             /\ pc' = pc
             /\ req' = req
             /\ posted' = posted
             /\ calls' = calls
     /\ (pc'[1] = "scheduled" /\ pc[1] # "scheduled")
          => /\ last'.op = "submit"
             /\ last'.checked = Range(req'[1].channels)
             /\ last'.failed = {}]_vars

(* a submission for two or more channels, of which the bot has joined     *)
(* some but not all, has been answered with the instructional view and    *)
(* its form is the draft of the user                                      *)
C17_Witness ==
  /\ last.op = "submit"
  /\ last.response = "update"
  /\ last.failed # {}
  /\ last.failed # Range(last.state.channels)
  /\ FindDraft(drafts, last.user) = last.state
  /\ poll = NoPoll

(* C18: no user ever has more than one draft; a submission stopped by the *)
(* membership guard leaves its form as the one draft of its user; the     *)
(* draft of a user is removed only by a submission of that user that      *)
(* inserts a poll, and is left as it is by every validation failure,      *)
(* every opening of the modal and every request of another user           *)
C18_DraftLifecycle ==
  [][\A u \in Users :
       /\ Len(drafts'[u]) <= 1
       /\ (last'.op = "submit" /\ last'.user = u /\ last'.response = "update")
            => drafts'[u] = <<[state |-> last'.state]>>
       /\ (drafts[u] # <<>> /\ drafts'[u] = <<>>)
            => /\ last'.op = "submit"
               /\ last'.user = u
               /\ last'.response = "200"
               /\ poll = NoPoll
               /\ poll' # NoPoll
               /\ poll'.creator_id = u
       /\ (\/ last'.op # "submit"
           \/ last'.user # u
           \/ last'.response = "errors")
            => drafts'[u] = drafts[u]]_vars

(* a user has created a poll while another user has a draft, which is     *)
(* still there                                                            *)
C18_Witness ==
  /\ last.op = "submit"
  /\ last.response = "200"
  /\ drafts[last.user] = <<>>
  /\ \E u \in Users \ {last.user} : Len(drafts[u]) = 1

(* C19: whenever a user who has a draft opens the creation modal, by the  *)
(* slash command or by the App Home button, the modal sent to views.open  *)
(* carries the question, the channels and one choice input block per      *)
(* choice block of the draft, with the values of the draft                *)
C19_DraftRestore ==
  [][(last'.op = "open_modal" /\ drafts[last'.user] # <<>>)
     => /\ last'.modal.draft_loaded
        /\ last'.modal.question = FindDraft(drafts, last'.user).question
        /\ last'.modal.fields = FindDraft(drafts, last'.user).fields
        /\ last'.modal.channels = FindDraft(drafts, last'.user).channels]_vars

(* the chat.postMessage calls of the broadcast, in the order of issue *)
PostCalls == SelectSeq(calls, LAMBDA c : c.api = "chat.postMessage")

(* C20: when the broadcast of a created poll has ended, one post has been *)
(* attempted for each selected channel, in their order and none twice;    *)
(* the poll holds a MessageRef for the channel of every post that         *)
(* succeeded and for no other, and not more MessageRefs than channels     *)
(* were selected                                                          *)
C20_Broadcast ==
  pc[1] = "done" =>
    /\ Len(PostCalls) = Len(req[1].channels)
    /\ \A i \in 1..Len(PostCalls) :
         /\ PostCalls[i].channel = req[1].channels[i]
         /\ PostCalls[i].outcome = "ok"
              <=> \E j \in 1..Len(poll.messages) :
                    poll.messages[j].channel = PostCalls[i].channel
    /\ Len(poll.messages) <= Len(req[1].channels)

(* C21: no vote, edit or add-option, each with the propagation that ends  *)
(* it, removes, reorders, changes or adds an entry of messages            *)
C21_MessagesAppendOnly ==
  [][(poll # NoPoll /\ poll' # NoPoll) => poll'.messages = poll.messages]_vars

(* the creator has edited a poll that holds a vote, and the poll has the  *)
(* MessageRefs it was posted with                                         *)
C21_Witness ==
  /\ poll # NoPoll
  /\ last.op = "edit"
  /\ last.response = "200"
  /\ \E i \in 1..Len(poll.choices) : poll.choices[i].voters # <<>>
  /\ Len(poll.messages) = NumChannels
  /\ \A ch \in Channels : posted[ch] = RenderPoll(poll)

(* C22: while allow_others_to_add_options is false, an add-option         *)
(* submission by a user who is not the creator appends no choice          *)
C22_AddOptionGate ==
  [][(/\ poll # NoPoll
      /\ ~poll.allow_others_to_add_options
      /\ last'.op = "add_option"
      /\ last'.user # poll.creator_id)
     => poll'.choices = poll.choices]_vars

(* C28: opening the settings gives the information view to a user who is  *)
(* not the creator and the settings view to the creator; the information  *)
(* view leads nowhere but to its closing; the edit view and the delete    *)
(* confirmation are entered from the settings view only; from the delete  *)
(* confirmation, confirm removes the poll and every message of it, and    *)
(* cancel leads back to the settings view with the poll unchanged         *)
C28_SettingsFlow ==
  [][\A u \in Users :
       /\ (last'.op = "open_settings" /\ last'.user = u /\ views'[u] # "none")
            => views'[u] = IF u = poll.creator_id THEN "settings" ELSE "info"
       /\ views[u] = "info" => views'[u] \in {"info", "none"}
       /\ (views'[u] \in {"edit", "delete_confirmation"} /\ views[u] # views'[u])
            => views[u] = "settings"
       /\ (views[u] = "delete_confirmation" /\ last'.op = "delete_view" /\ last'.user = u)
            => /\ poll' = NoPoll
               /\ \A ch \in DOMAIN posted : posted'[ch] = NoContent
       /\ (views[u] = "delete_confirmation" /\ last'.op = "close" /\ last'.user = u)
            => /\ views'[u] = "settings"
               /\ poll' = poll]_vars

(* C25: a vote, edit or delete request that finds no poll changes nothing *)
(* and is answered 200, with no error status and no error message         *)
C25_NotFoundSilent ==
  [][(/\ poll = NoPoll
      /\ last'.op \in {"vote", "edit", "delete_view", "delete_action"})
     => (poll' = NoPoll /\ posted' = posted /\ last'.response = "200")]_vars

(* C29: an edit submission or a delete confirmation by a user who is not  *)
(* the creator of the poll changes nothing and is answered 200, with no   *)
(* error status and no error message                                      *)
C29_UnauthorizedSilent ==
  [][(/\ poll # NoPoll
      /\ last'.op \in {"edit", "delete_view", "delete_action"}
      /\ last'.user # poll.creator_id)
     => (poll' = poll /\ posted' = posted /\ last'.response = "200")]_vars

(* --------------- the acknowledgment and the propagation --------------- *)
(* C24: a message update call of the propagation never changes the answer *)
(* to the request that triggered it: the answer is given before the calls *)
(* and whatever they do                                                   *)
C24_FireAndForget ==
  [][calls' # calls => loc'[1].response = loc[1].response]_vars

(* C26: a request whose handling has ended is answered 200, whatever the  *)
(* calls to the chat platform made for it did (error reply or raised      *)
(* transport error)                                                       *)
C26_NotEscalated ==
  pc[1] = "done" => loc[1].response = "200"

(* C27: once a vote, an edit or an added option is stored, the stored     *)
(* poll holds it through the propagation and when the handler has ended,  *)
(* whichever update calls failed and however                              *)
C27_NoUnwind ==
  pc[1] \in {"render", "update", "done"} =>
    /\ last.op = "vote" => AlreadyVoted(poll, req[1].choice, req[1].user)
    /\ last.op = "edit" => poll.allow_others_to_add_options
    /\ last.op = "add_option" =>
         \E i \in 1..Len(poll.choices) : poll.choices[i].id = req[1].choice

(* the handler ended with 500 after an error reply and a raised error,    *)
(* and the vote is stored                                                 *)
C27_Witness ==
  /\ pc[1] = "done"
  /\ loc[1].response = "500"
  /\ \E k \in 1..Len(calls) : calls[k].outcome = "error"
  /\ \E k \in 1..Len(calls) : calls[k].outcome = "raised"
  /\ AlreadyVoted(poll, req[1].choice, req[1].user)

(* C23: the step that answers a valid creation submission with 200 is the *)
(* step that inserts the poll and schedules the broadcast, and no channel *)
(* post has been made by then; no call of the broadcast, whether it       *)
(* succeeds, gets an error reply or raises, changes that answer           *)
C23_AckBeforeBroadcast ==
  [][/\ (last' # last /\ last'.response = "200")
          => /\ poll' # NoPoll
             /\ pc'[1] = "scheduled"
             /\ calls' = <<>>
     /\ calls' # calls => last' = last]_vars

(* the broadcast has ended after an error reply and a raised error, and   *)
(* the submission stands answered with 200                                *)
C23_Witness ==
  /\ last.op = "submit"
  /\ last.response = "200"
  /\ pc[1] = "done"
  /\ \E k \in 1..Len(calls) : calls[k].api = "chat.postMessage" /\ calls[k].outcome = "error"
  /\ \E k \in 1..Len(calls) : calls[k].api = "chat.postMessage" /\ calls[k].outcome = "raised"

(* ------------------------- the order of choices ----------------------- *)
(* C30: the texts of the choices of a poll stored by a creation           *)
(* submission are the non-blank option inputs of the modal in the order   *)
(* the modal shows them, for any number of inputs                         *)
C30_EntryOrder ==
  (last.op = "submit" /\ last.response = "200" /\ poll # NoPoll) =>
    [i \in 1..Len(poll.choices) |-> poll.choices[i].text] = NonEmpty(last.state.fields)

(* ------------------- the MessageRef of a posted message --------------- *)
(* C35: the permalink lookup that follows a successful post appends a     *)
(* MessageRef with the channel and the timestamp of the post whatever the *)
(* lookup does (answer, error reply or raised error); the permalink is    *)
(* present exactly when the lookup succeeded                              *)
C35_PostYieldsMessageRef ==
  [][(pc[1] = "permalink" /\ calls' # calls) =>
       /\ Len(poll'.messages) = Len(poll.messages) + 1
       /\ poll'.messages[Len(poll'.messages)].channel = req[1].channels[loc[1].i]
       /\ poll'.messages[Len(poll'.messages)].ts = PostedTs
       /\ poll'.messages[Len(poll'.messages)].permalink
            = (calls'[Len(calls')].outcome = "ok")]_vars

(* ------------------------ blanked choice fields ----------------------- *)
(* the sequence s without its k-th element *)
RemoveAt(s, k) == [i \in 1..(Len(s) - 1) |-> IF i < k THEN s[i] ELSE s[i + 1]]

(* C33: an edit in which the k-th choice field was emptied and nothing    *)
(* else was changed leaves the choices as they were without the k-th:     *)
(* every other choice keeps its id, its text and its voters               *)
C33_BlankRemovesThatChoice ==
  [][last'.op = "edit_blank" => poll'.choices = RemoveAt(poll.choices, last'.blanked)]_vars

(* C34: a stored poll has at least one choice and no choice of it has an  *)
(* empty text                                                             *)
C34_NonEmptyChoices ==
  poll # NoPoll =>
    /\ Len(poll.choices) >= 1
    /\ \A i \in 1..Len(poll.choices) : poll.choices[i].text # ""

(* ------------------------ range of percentages ------------------------ *)
(* C38: every percentage shown in a posted message is between 0 and 100 *)
C38_PercentageRange ==
  \A ch \in DOMAIN posted :
    posted[ch] # NoContent =>
      \A k \in 1..Len(posted[ch].rows) :
        posted[ch].rows[k].percentage >= 0 /\ posted[ch].rows[k].percentage <= 100

(* ---------------------- propagation is attempted ---------------------- *)
NoCallRaised == \A k \in 1..Len(calls) : calls[k].outcome # "raised"

(* the handler has ended; unless a call raised, an update call was issued *)
(* for every MessageRef of the poll as it was re-read, and the answer is  *)
(* 200                                                                    *)
PropagationDone ==
  /\ pc[1] = "done"
  /\ NoCallRaised =>
       /\ loc[1].response = "200"
       /\ \A j \in 1..Len(loc[1].messages) : UpdateIssuedFor(loc[1].messages[j])
       /\ loc[1].messages = poll.messages

(* C39: once a vote, an edit or an added option is stored, the handler    *)
(* eventually ends, and if no call to the chat platform raised, it has    *)
(* issued an update call for every MessageRef the poll had when it was    *)
(* re-read and answers 200                                                *)
C39_PropagationAttempted ==
  (pc[1] = "render") ~> PropagationDone

(* the handler ended with 200 after an update call for each of            *)
(* FanChannels messages, one of which got an error reply                  *)
C39_Witness ==
  /\ pc[1] = "done"
  /\ loc[1].response = "200"
  /\ Len(poll.messages) = FanChannels
  /\ Len(calls) = FanChannels
  /\ \E k \in 1..Len(calls) : calls[k].outcome = "error"
  /\ \A j \in 1..Len(poll.messages) : UpdateIssuedFor(poll.messages[j])

(* --------------------- an edit beside other handlers ------------------ *)
(* C31: when the edit handler and a vote or add-option handler have both  *)
(* ended, the poll holds the vote, or the added option, however their     *)
(* store operations were interleaved                                      *)
C31_EditKeepsConcurrentChanges ==
  (pc[1] = "done" /\ pc[2] = "done") =>
    /\ last.op = "vote" => AlreadyVoted(poll, req[1].choice, req[1].user)
    /\ last.op = "add_option" =>
         \E i \in 1..Len(poll.choices) : poll.choices[i].id = req[1].choice

(* ------------------ the broadcast beside other handlers --------------- *)
AllCallsOk == \A k \in 1..Len(calls) : calls[k].outcome = "ok"

(* C32: when the broadcast has ended and every call to the chat platform  *)
(* succeeded, every posted message of the poll shows the rendering of the *)
(* stored poll, whatever votes were handled meanwhile                     *)
C32_DisplaysConverge ==
  (pc[1] = "done" /\ poll # NoPoll /\ AllCallsOk) =>
    \A ch \in DOMAIN posted :
      posted[ch] # NoContent => posted[ch] = RenderPoll(poll)

(* C36: a vote click on a posted message of a stored poll is never        *)
(* answered 'poll not found'                                              *)
C36_VoteOnPostedMessageApplies ==
  (last.op = "vote" /\ poll # NoPoll) => last.response = "200"

(* C37: once the creator's delete has completed, a delete call was issued *)
(* for every message that a post of the broadcast created                 *)
C37_NoOrphanMessage ==
  poll = NoPoll =>
    \A k \in 1..Len(calls) :
      (calls[k].api = "chat.postMessage" /\ calls[k].outcome = "ok") =>
        \E d \in 1..Len(calls) :
          calls[d].api = "chat.delete" /\ calls[d].channel = calls[k].channel

====
